---- MODULE Spec2Model ----
(***************************************************************************)
(* Legal Situation Analyzer (src/main.py): the analysis pipeline that the  *)
(* "Analyze Situation" button runs, and the pure functions it is built     *)
(* from.                                                                   *)
(*                                                                         *)
(* Encoding of Python values                                               *)
(*   - a text (str that the code searches) is a sequence of characters;    *)
(*     an ASCII character is the one-character string, any other one is    *)
(*     named by its code point ("U+20B9" is the rupee sign);               *)
(*   - a label (category, sentiment label, language code, exception name)  *)
(*     is a TLA+ string; NoneLabel stands for a value that is not a str;   *)
(*   - a score is an integer number of hundredths (0.5 is 50);             *)
(*   - a dict is a record, a missing key a missing field;                  *)
(*   - a list is a sequence.                                               *)
(*                                                                         *)
(* Specifications                                                          *)
(*   - Spec: one analysis, statement by statement;                         *)
(*   - SpecUrgency, SpecAdvice: assess_urgency, extract_key_info and       *)
(*     generate_legal_advice over all small texts;                         *)
(*   - SpecSession: one browser session, analyses and saves, with objects  *)
(*     held by address;                                                    *)
(*   - SpecConcurrent: two sessions whose statements interleave;           *)
(*   - SpecProcess: the sessions of one process and their analyzers;       *)
(*   - SpecSetup, SpecSessions, SpecCases, SpecKnowledge: the database     *)
(*     file of src/config_database.py and of main.py's setup_database.     *)
(***************************************************************************)
EXTENDS Integers, Sequences, FiniteSets, TLC

VARIABLES
    pc,               \* the step of main()'s analysis branch last completed
    steps,            \* history: the steps performed, in order
    calls,            \* history: the external calls issued, in order
    error,            \* the exception that left main() ("" when none)
    user_input,       \* st.text_area value
    detected_lang,    \* main: detected_lang
    translated_text,  \* main: translated_text
    extracted_info,   \* main: extracted_info
    category_info,    \* main: category_info
    sentiment,        \* main: sentiment
    summary,          \* main: summary
    advice,           \* main: advice
    analysis_results, \* st.session_state.analysis_results (<<>> when absent)
    u_text,           \* assess_urgency harness: argument text
    u_category,       \* assess_urgency harness: argument category
    u_level,          \* assess_urgency harness: returned level ("" before the call)
    a_terms,          \* advice harness: the terms the text is made of
    a_text,           \* advice harness: argument text
    a_category,       \* advice harness: argument category
    a_info,           \* advice harness: extract_key_info(a_text), Unset before
    a_advice,         \* advice harness: generate_legal_advice(...), Unset before
    heap,             \* session: the objects (lists and dicts) created so far
    results_ref,      \* session: st.session_state.analysis_results (0 when absent)
    produced,         \* session history: the results produced, as they were then
    templates,        \* session history: the template lists built by the advice calls
    cases,            \* session: the rows of table cases of legal_cases.db
    runs,             \* session: how often "Analyze Situation" was pressed
    frames,           \* concurrent sessions: the locals of each session's run of main()
    st_state,         \* process: each browser session's st.session_state.analyzer
    model_loads,      \* process history: the runs of setup_models
    db,               \* database file: its tables, their columns and rows
    logger,           \* DatabaseManager: whether self.logger is assigned
    clock,            \* database: sqlite's 'now', in days
    outcome,          \* database: what the last call returned or raised
    journal           \* database history: the calls made, with their outcomes

pipeline_vars == <<pc, steps, calls, error, user_input, detected_lang,
                   translated_text, extracted_info, category_info, sentiment,
                   summary, advice, analysis_results>>
urgency_vars == <<u_text, u_category, u_level>>
advice_vars == <<a_terms, a_text, a_category, a_info, a_advice>>
session_vars == <<heap, results_ref, produced, templates, cases, runs>>
process_vars == <<st_state, model_loads>>
database_vars == <<db, logger, clock, outcome, journal>>
service_vars == <<process_vars, database_vars>>
harness_vars == <<urgency_vars, advice_vars, session_vars, frames, service_vars>>
vars == <<pipeline_vars, harness_vars>>

----------------------------------------------------------------------------
(* Bounds *)

\* Longest text of the assess_urgency harness, in words.
MaxWords == 3

\* Longest text of the advice harness, in terms.
MaxTerms == 2

\* Most reruns of main() with an analysis in one session of the process model.
MaxReruns == 2

\* Most calls made on the database in one behaviour of the set-up model.
MaxCalls == 4

\* The days that pass, and most activity updates of one user session.
MaxDays == 2
MaxInteractions == 1

\* Most inserting calls in one behaviour of the cases model and of the
\* knowledge model.
MaxStores == 3
MaxAdditions == 5

\* Most presses of "Analyze Situation" and of "Save Case" in one session.
MaxRuns == 2
MaxSaves == 1

----------------------------------------------------------------------------
(* Characters and str methods *)

UpperCase == <<"A", "B", "C", "D", "E", "F", "G", "H", "I", "J", "K", "L", "M",
               "N", "O", "P", "Q", "R", "S", "T", "U", "V", "W", "X", "Y", "Z">>
LowerCase == <<"a", "b", "c", "d", "e", "f", "g", "h", "i", "j", "k", "l", "m",
               "n", "o", "p", "q", "r", "s", "t", "u", "v", "w", "x", "y", "z">>

\* str.lower() on one character.
LowerChar(c) ==
    IF \E i \in 1..Len(UpperCase) : UpperCase[i] = c
    THEN LowerCase[CHOOSE i \in 1..Len(UpperCase) : UpperCase[i] = c]
    ELSE c

\* str.lower()
Lower(t) == [i \in 1..Len(t) |-> LowerChar(t[i])]

\* Python's  w in t  for str operands.
Contains(t, w) ==
    \E i \in 0..(Len(t) - Len(w)) : SubSeq(t, i + 1, i + Len(w)) = w

\* sep.join(parts)
RECURSIVE Join(_, _)
Join(sep, parts) ==
    IF Len(parts) = 0 THEN <<>>
    ELSE IF Len(parts) = 1 THEN parts[1]
    ELSE parts[1] \o sep \o Join(sep, Tail(parts))

\* Whether sequence s starts sequence t.
IsPrefix(s, t) == Len(s) <= Len(t) /\ s = SubSeq(t, 1, Len(s))

----------------------------------------------------------------------------
(* assess_urgency *)

urgent_keywords == <<
    <<"e", "m", "e", "r", "g", "e", "n", "c", "y">>,
    <<"u", "r", "g", "e", "n", "t">>,
    <<"i", "m", "m", "e", "d", "i", "a", "t", "e">>,
    <<"t", "h", "r", "e", "a", "t">>,
    <<"v", "i", "o", "l", "e", "n", "c", "e">>,
    <<"h", "a", "r", "a", "s", "s", "m", "e", "n", "t">>,
    <<"e", "v", "i", "c", "t", "i", "o", "n">> >>

\* The for loop of assess_urgency from keyword k on, urgency_score so far.
RECURSIVE UrgencyLoop(_, _, _)
UrgencyLoop(text_lower, k, urgency_score) ==
    IF k > Len(urgent_keywords) THEN urgency_score
    ELSE UrgencyLoop(text_lower, k + 1,
                     IF Contains(text_lower, urgent_keywords[k])
                     THEN urgency_score + 1 ELSE urgency_score)

\* Mutant: HIGH from a score of 2.
UrgencyTier_high_from_two(urgency_score) ==
    IF urgency_score >= 2 THEN "HIGH"
    ELSE IF urgency_score >= 1 THEN "MEDIUM"
    ELSE "LOW"

\* The thresholds of assess_urgency.
UrgencyTier(urgency_score) ==
    IF urgency_score >= 3 THEN "HIGH"
    ELSE IF urgency_score >= 1 THEN "MEDIUM"
    ELSE "LOW"

\* Mutant: the keywords are searched in the text as typed (text.lower()
\* dropped).
assess_urgency_case_sensitive(text, category) ==
    LET hits == UrgencyLoop(text, 1, 0)
        urgency_score == IF category = "criminal" THEN hits + 2 ELSE hits
    IN  UrgencyTier(urgency_score)

\* Mutant: the criminal bonus assigned instead of added (urgency_score = 2).
assess_urgency_bonus_assigned(text, category) ==
    LET text_lower == Lower(text)
        hits == UrgencyLoop(text_lower, 1, 0)
        urgency_score == IF category = "criminal" THEN 2 ELSE hits
    IN  UrgencyTier(urgency_score)

assess_urgency(text, category) ==
    LET text_lower == Lower(text)
        hits == UrgencyLoop(text_lower, 1, 0)
        urgency_score == IF category = "criminal" THEN hits + 2 ELSE hits
    IN  UrgencyTier(urgency_score)

----------------------------------------------------------------------------
(* Character classes of the re module (str patterns) *)

Digits == {"0", "1", "2", "3", "4", "5", "6", "7", "8", "9"}

\* The Devanagari letters of the keyword lists (str.isalnum() is true of
\* them; it is false of the vowel signs and the virama).
DevanagariLetters == {"U+0915", "U+091D", "U+0923", "U+0924", "U+0926", "U+0928", "U+092A", "U+092E", "U+092F", "U+0930", "U+0932", "U+0935", "U+0936", "U+0938"}

\* \w : alphanumeric or underscore.
WordChars ==
    {UpperCase[i] : i \in 1..Len(UpperCase)} \cup
    {LowerCase[i] : i \in 1..Len(LowerCase)} \cup
    Digits \cup {"_"} \cup DevanagariLetters

\* \s
SpaceChars == {" ", "\t", "\n"}

IsDigitAt(t, i) == i >= 1 /\ i <= Len(t) /\ t[i] \in Digits
IsWordAt(t, i) == i >= 1 /\ i <= Len(t) /\ t[i] \in WordChars
IsSpaceAt(t, i) == i >= 1 /\ i <= Len(t) /\ t[i] \in SpaceChars

\* \b just before position i.
WordBoundary(t, i) == IsWordAt(t, i - 1) # IsWordAt(t, i)

\* \d{n} at position i.
DigitsAt(t, i, n) == \A j \in i..(i + n - 1) : IsDigitAt(t, j)

\* The position after a greedy \d* from position i.
RECURSIVE DigitRunEnd(_, _)
DigitRunEnd(t, i) == IF IsDigitAt(t, i) THEN DigitRunEnd(t, i + 1) ELSE i

\* The position after a greedy \s* from position i.
RECURSIVE SkipSpaces(_, _)
SkipSpaces(t, i) == IF IsSpaceAt(t, i) THEN SkipSpaces(t, i + 1) ELSE i

----------------------------------------------------------------------------
(* extract_key_info *)

\* date_pattern = \b\d{1,2}[-/]\d{1,2}[-/]\d{2,4}\b : the ways to split a
\* match into (day digits, month digits, year digits), in the order the
\* greedy quantifiers try them.
DateSplits == <<
    <<2, 2, 4>>, <<2, 2, 3>>, <<2, 2, 2>>, <<2, 1, 4>>, <<2, 1, 3>>, <<2, 1, 2>>,
    <<1, 2, 4>>, <<1, 2, 3>>, <<1, 2, 2>>, <<1, 1, 4>>, <<1, 1, 3>>, <<1, 1, 2>> >>

DateSeparators == {"-", "/"}

IsSepAt(t, i) == i >= 1 /\ i <= Len(t) /\ t[i] \in DateSeparators

\* Whether date_pattern matches at position i with split s.
DateMatchesWith(t, i, s) ==
    /\ WordBoundary(t, i)
    /\ DigitsAt(t, i, s[1])
    /\ IsSepAt(t, i + s[1])
    /\ DigitsAt(t, i + s[1] + 1, s[2])
    /\ IsSepAt(t, i + s[1] + 1 + s[2])
    /\ DigitsAt(t, i + s[1] + s[2] + 2, s[3])
    /\ WordBoundary(t, i + s[1] + s[2] + 2 + s[3])

\* The position after date_pattern's match at position i, 0 when none.
DateMatchEnd(t, i) ==
    LET ok == {k \in 1..Len(DateSplits) : DateMatchesWith(t, i, DateSplits[k])}
    IN  IF ok = {} THEN 0
        ELSE LET s == DateSplits[CHOOSE k \in ok : \A m \in ok : k <= m]
             IN  i + s[1] + s[2] + 2 + s[3]

\* re.findall(date_pattern, text) from position i on.
RECURSIVE FindDates(_, _)
FindDates(t, i) ==
    IF i > Len(t) THEN <<>>
    ELSE LET e == DateMatchEnd(t, i)
         IN  IF e = 0 THEN FindDates(t, i + 1)
             ELSE <<SubSeq(t, i, e - 1)>> \o FindDates(t, e)

RupeeSign == "U+20B9"

\* The words of amount_pattern's third alternative, in pattern order.
AmountWords == <<
    <<"r", "u", "p", "e", "e", "s">>,
    <<"d", "o", "l", "l", "a", "r", "s">>,
    <<"l", "a", "k", "h">>,
    <<"c", "r", "o", "r", "e">> >>

\* The position after \d+(?:,\d+)* at position i, 0 when it does not match.
RECURSIVE GroupedDigitsTail(_, _)
GroupedDigitsTail(t, e) ==
    IF e <= Len(t) /\ t[e] = "," /\ IsDigitAt(t, e + 1)
    THEN GroupedDigitsTail(t, DigitRunEnd(t, e + 1))
    ELSE e

GroupedDigitsEnd(t, i) ==
    IF IsDigitAt(t, i) THEN GroupedDigitsTail(t, DigitRunEnd(t, i)) ELSE 0

\* Whether word w matches at position i under re.IGNORECASE.
WordAt(t, i, w) ==
    i + Len(w) - 1 <= Len(t) /\ Lower(SubSeq(t, i, i + Len(w) - 1)) = w

\* The position after \d+\s*(?:rupees|dollars|lakh|crore) at position i,
\* 0 when it does not match.
NumberWordEnd(t, i) ==
    IF ~IsDigitAt(t, i) THEN 0
    ELSE LET s == SkipSpaces(t, DigitRunEnd(t, i))
             ok == {k \in 1..Len(AmountWords) : WordAt(t, s, AmountWords[k])}
         IN  IF ok = {} THEN 0
             ELSE s + Len(AmountWords[CHOOSE k \in ok : \A m \in ok : k <= m])

\* The position after amount_pattern's match at position i, 0 when none:
\* the alternatives are tried in pattern order.
AmountMatchEnd(t, i) ==
    IF t[i] = RupeeSign THEN GroupedDigitsEnd(t, SkipSpaces(t, i + 1))
    ELSE IF t[i] = "$" THEN GroupedDigitsEnd(t, SkipSpaces(t, i + 1))
    ELSE NumberWordEnd(t, i)

\* re.findall(amount_pattern, text, re.IGNORECASE) from position i on.
RECURSIVE FindAmounts(_, _)
FindAmounts(t, i) ==
    IF i > Len(t) THEN <<>>
    ELSE LET e == AmountMatchEnd(t, i)
         IN  IF e = 0 THEN FindAmounts(t, i + 1)
             ELSE <<SubSeq(t, i, e - 1)>> \o FindAmounts(t, e)

\* keywords['english'], keywords['hindi'], keywords['marathi']
keywords_english == <<
    <<"c", "o", "n", "t", "r", "a", "c", "t">>,
    <<"a", "g", "r", "e", "e", "m", "e", "n", "t">>,
    <<"d", "i", "s", "p", "u", "t", "e">>,
    <<"c", "o", "u", "r", "t">>,
    <<"l", "a", "w", "y", "e", "r">>,
    <<"c", "a", "s", "e">>,
    <<"l", "e", "g", "a", "l">>,
    <<"l", "a", "w">> >>

keywords_hindi == <<
    <<"U+0915", "U+093E", "U+0928", "U+0942", "U+0928", "U+0940">>,
    <<"U+0928", "U+094D", "U+092F", "U+093E", "U+092F", "U+093E", "U+0932", "U+092F">>,
    <<"U+0935", "U+0915", "U+0940", "U+0932">>,
    <<"U+092E", "U+093E", "U+092E", "U+0932", "U+093E">>,
    <<"U+0935", "U+093F", "U+0935", "U+093E", "U+0926">>,
    <<"U+0938", "U+092E", "U+091D", "U+094C", "U+0924", "U+093E">> >>

keywords_marathi == <<
    <<"U+0915", "U+093E", "U+092F", "U+0926", "U+0947", "U+0936", "U+0940", "U+0930">>,
    <<"U+0928", "U+094D", "U+092F", "U+093E", "U+092F", "U+093E", "U+0932", "U+092F">>,
    <<"U+0935", "U+0915", "U+0940", "U+0932">>,
    <<"U+092A", "U+094D", "U+0930", "U+0915", "U+0930", "U+0923">>,
    <<"U+0935", "U+093E", "U+0926">>,
    <<"U+0915", "U+0930", "U+093E", "U+0930">> >>

\* The words of the keywords dict in iteration order (insertion order).
keywords == keywords_english \o keywords_hindi \o keywords_marathi

\* Mutant: a word already listed is not listed again.
RECURSIVE KeywordLoop_dedup(_, _)
KeywordLoop_dedup(text_lower, k) ==
    IF k > Len(keywords) THEN <<>>
    ELSE (IF /\ Contains(text_lower, Lower(keywords[k]))
             /\ \A j \in 1..(k - 1) : keywords[j] # keywords[k]
          THEN <<keywords[k]>> ELSE <<>>)
         \o KeywordLoop_dedup(text_lower, k + 1)

\* Mutant: the operands of "in" swapped (text_lower in word.lower()).
RECURSIVE KeywordLoop_swapped(_, _)
KeywordLoop_swapped(text_lower, k) ==
    IF k > Len(keywords) THEN <<>>
    ELSE (IF Contains(Lower(keywords[k]), text_lower) THEN <<keywords[k]>> ELSE <<>>)
         \o KeywordLoop_swapped(text_lower, k + 1)

\* The loops over keywords from word k on.
RECURSIVE KeywordLoop(_, _)
KeywordLoop(text_lower, k) ==
    IF k > Len(keywords) THEN <<>>
    ELSE (IF Contains(text_lower, Lower(keywords[k])) THEN <<keywords[k]>> ELSE <<>>)
         \o KeywordLoop(text_lower, k + 1)

extract_key_info(text) ==
    [parties_involved |-> <<>>,
     legal_keywords   |-> KeywordLoop(Lower(text), 1),
     dates            |-> FindDates(text, 1),
     amounts          |-> FindAmounts(text, 1),
     locations        |-> <<>>]

----------------------------------------------------------------------------
(* LegalSituationAnalyzer.__init__ : self.legal_categories *)

legal_categories == [
    family |-> <<"divorce", "custody", "marriage", "property", "inheritance">>,
    criminal |-> <<"theft", "assault", "fraud", "harassment", "violence">>,
    civil |-> <<"contract", "debt", "defamation", "negligence", "breach">>,
    property |-> <<"rent", "eviction", "ownership", "dispute", "registration">>,
    employment |-> <<"salary", "termination", "harassment", "rights", "compensation">>,
    consumer |-> <<"refund", "warranty", "service", "product", "complaint">>]

----------------------------------------------------------------------------
(* generate_legal_advice *)

advice_templates == [
    family |-> [
        steps |-> <<"Document all relevant communications and agreements",
                  "Consult with a family law specialist",
                  "Consider mediation before litigation",
                  "Gather all financial documents",
                  "Understand your rights under family laws">>,
        laws |-> <<"Hindu Marriage Act, 1955",
                 "Indian Succession Act, 1925",
                 "Protection of Women from Domestic Violence Act, 2005",
                 "Guardians and Wards Act, 1890">>],
    criminal |-> [
        steps |-> <<"File an FIR at the nearest police station immediately",
                  "Preserve all evidence related to the incident",
                  "Consult with a criminal lawyer",
                  "Cooperate with police investigation",
                  "Keep records of all proceedings">>,
        laws |-> <<"Indian Penal Code, 1860",
                 "Code of Criminal Procedure, 1973",
                 "Indian Evidence Act, 1872",
                 "Protection of Women from Sexual Harassment Act, 2013">>],
    civil |-> [
        steps |-> <<"Send a legal notice to the other party",
                  "Gather all relevant documents and evidence",
                  "Attempt alternative dispute resolution",
                  "File a civil suit if necessary",
                  "Maintain detailed records">>,
        laws |-> <<"Code of Civil Procedure, 1908",
                 "Indian Contract Act, 1872",
                 "Specific Relief Act, 1963",
                 "Limitation Act, 1963">>],
    property |-> [
        steps |-> <<"Verify property documents and titles",
                  "Check for any encumbrances or disputes",
                  "Consult with a property lawyer",
                  "Register the property properly",
                  "Maintain all transaction records">>,
        laws |-> <<"Transfer of Property Act, 1882",
                 "Registration Act, 1908",
                 "Indian Stamp Act, 1899",
                 "Real Estate Regulation Act, 2016">>],
    employment |-> [
        steps |-> <<"Review your employment contract",
                  "Document workplace incidents",
                  "File complaints with appropriate authorities",
                  "Seek legal consultation",
                  "Understand your labor rights">>,
        laws |-> <<"Industrial Disputes Act, 1947",
                 "Minimum Wages Act, 1948",
                 "Employees' Provident Fund Act, 1952",
                 "Sexual Harassment of Women at Workplace Act, 2013">>],
    consumer |-> [
        steps |-> <<"File a complaint with consumer forum",
                  "Gather purchase receipts and warranties",
                  "Document all communications with seller",
                  "Seek compensation for damages",
                  "Know your consumer rights">>,
        laws |-> <<"Consumer Protection Act, 2019",
                 "Indian Contract Act, 1872",
                 "Sale of Goods Act, 1930",
                 "Competition Act, 2002">>]]

\* A str that is a literal of the source: a formatted string is the pair of
\* its format and the text substituted into it, a literal has no substitution.
Literal(s) == [fmt |-> s, arg |-> <<>>]

Literals(ss) == [i \in 1..Len(ss) |-> Literal(ss[i])]

CommaSpace == <<",", " ">>

\* Mutant: the fallback is the first template instead of 'civil'.
TemplateOf_first_fallback(category) ==
    IF category \in DOMAIN advice_templates
    THEN advice_templates[category]
    ELSE advice_templates["family"]

\* Mutant: no default given to get(); a missing key yields a template
\* without steps and laws.
TemplateOf_no_default(category) ==
    IF category \in DOMAIN advice_templates
    THEN advice_templates[category]
    ELSE [steps |-> <<>>, laws |-> <<>>]

\* advice_templates.get(category, advice_templates['civil'])
TemplateOf(category) ==
    IF category \in DOMAIN advice_templates
    THEN advice_templates[category]
    ELSE advice_templates["civil"]

MonetaryStep(amounts) ==
    [fmt |-> "The monetary value involved ({}) may affect the jurisdiction and court fees",
     arg |-> Join(CommaSpace, amounts)]

LimitationStep == Literal("Pay attention to limitation periods for legal action")

\* Mutant: the two conditions swapped, the monetary step added for dates
\* and the limitation step for amounts.
generate_legal_advice_swapped(category, text, info) ==
    LET template == TemplateOf(category)
        base == Literals(template.steps)
        with_amounts == IF info.dates # <<>>
                        THEN Append(base, MonetaryStep(info.amounts))
                        ELSE base
        customized_steps == IF info.amounts # <<>>
                            THEN Append(with_amounts, LimitationStep)
                            ELSE with_amounts
    IN  [recommended_steps |-> customized_steps,
         applicable_laws   |-> template.laws,
         urgency_level     |-> assess_urgency(text, category)]

\* Mutant: the two ifs in the other order, the limitation step appended
\* before the monetary step.
generate_legal_advice_dates_first(category, text, info) ==
    LET template == TemplateOf(category)
        base == Literals(template.steps)
        with_dates == IF info.dates # <<>>
                      THEN Append(base, LimitationStep) ELSE base
        customized_steps == IF info.amounts # <<>>
                            THEN Append(with_dates, MonetaryStep(info.amounts))
                            ELSE with_dates
    IN  [recommended_steps |-> customized_steps,
         applicable_laws   |-> template.laws,
         urgency_level     |-> assess_urgency(text, category)]

\* Mutant: the limitation step added only when there are no amounts (elif).
generate_legal_advice_elif(category, text, info) ==
    LET template == TemplateOf(category)
        base == Literals(template.steps)
        customized_steps == IF info.amounts # <<>>
                            THEN Append(base, MonetaryStep(info.amounts))
                            ELSE IF info.dates # <<>>
                            THEN Append(base, LimitationStep)
                            ELSE base
    IN  [recommended_steps |-> customized_steps,
         applicable_laws   |-> template.laws,
         urgency_level     |-> assess_urgency(text, category)]

generate_legal_advice(category, text, info) ==
    LET template == TemplateOf(category)
        base == Literals(template.steps)
        with_amounts == IF info.amounts # <<>>
                        THEN Append(base, MonetaryStep(info.amounts)) ELSE base
        customized_steps == IF info.dates # <<>>
                            THEN Append(with_amounts, LimitationStep)
                            ELSE with_amounts
    IN  [recommended_steps |-> customized_steps,
         applicable_laws   |-> template.laws,
         urgency_level     |-> assess_urgency(text, category)]

----------------------------------------------------------------------------
(* External services: what a call may do *)

\* A value that is not a str (None).
NoneLabel == "<None>"

Raised == [kind |-> "raise"]

\* Translator.detect: a language code, or an exception.
DetectOutcomes == {[kind |-> "ok", lang |-> l] : l \in {"en", "hi"}} \cup {Raised}

\* The classifier pipeline: ranked labels and scores (the first is read), a
\* result with no labels, a result with no scores, or an exception.  The top
\* label may be outside the candidate labels or not a str; the top score may
\* be outside [0, 1].
ClassifierLabels == {"criminal", "property", "tax", NoneLabel}
ClassifierScores == {90, 150, -10}
ClassifyOutcomes ==
    {[kind |-> "ok", labels |-> <<l, "civil">>, scores |-> <<s, 5>>] :
        l \in ClassifierLabels, s \in ClassifierScores}
    \cup {[kind |-> "ok", labels |-> <<>>, scores |-> <<>>],
          [kind |-> "ok", labels |-> <<"civil">>, scores |-> <<>>],
          Raised}

\* The sentiment pipeline: a list of dicts (the first is read), an empty
\* list, a dict without 'label' or without 'score', or an exception.
SentimentScores == {80, 120}
SentimentOutcomes ==
    {[kind |-> "ok", result |-> <<[label |-> "NEGATIVE", score |-> s]>>] :
        s \in SentimentScores}
    \cup {[kind |-> "ok", result |-> <<>>],
          [kind |-> "ok", result |-> <<[score |-> 80]>>],
          [kind |-> "ok", result |-> <<[label |-> "NEGATIVE"]>>],
          Raised}

----------------------------------------------------------------------------
(* detect_language, translate_text, categorize_legal_issue, analyze_sentiment *)

\* detect_language(text), the service answering d.
detect_language(d) == IF d.kind = "ok" THEN d.lang ELSE "en"

\* translate_text(text, 'en'), its detect call answering d and its translate
\* call (if made) answering tr.
translate_text(text, d, tr) ==
    IF detect_language(d) = "en" THEN text
    ELSE IF tr.kind = "ok" THEN tr.text
    ELSE text

\* An external call, as the calls history records it: the service, the text
\* passed and what the service did.
Call(svc, arg, reply) == [svc |-> svc, arg |-> arg, reply |-> reply]

\* The external calls translate_text(text, 'en') issues.
translate_calls(text, d, tr) ==
    <<Call("detect", text, d)>> \o
    (IF detect_language(d) = "en" THEN <<>>
     ELSE <<Call("translate", text, tr)>>)

DefaultCategory == [category |-> "general", confidence |-> 50, subcategories |-> <<>>]

\* self.legal_categories.get(primary_category, [])
Subcategories(primary_category) ==
    IF primary_category \in DOMAIN legal_categories
    THEN legal_categories[primary_category]
    ELSE <<>>

\* categorize_legal_issue(text), the classifier answering c.
categorize_legal_issue(c) ==
    IF c.kind = "ok" /\ Len(c.labels) >= 1 /\ Len(c.scores) >= 1
    THEN [category      |-> c.labels[1],
          confidence    |-> c.scores[1],
          subcategories |-> Subcategories(c.labels[1])]
    ELSE DefaultCategory

DefaultSentiment == [label |-> "NEUTRAL", score |-> 50]

\* Mutant: the whole list returned instead of its first entry, the default
\* kept for the exception alone.
analyze_sentiment_first_unchecked(s) ==
    IF s.kind = "ok"
    THEN (IF Len(s.result) >= 1 THEN s.result[1] ELSE [label |-> "", score |-> 0])
    ELSE DefaultSentiment

\* analyze_sentiment(text), the sentiment pipeline answering s.
analyze_sentiment(s) ==
    IF s.kind = "ok" /\ Len(s.result) >= 1 THEN s.result[1] ELSE DefaultSentiment

----------------------------------------------------------------------------
(* create_situation_summary *)

\* str.title() on the labels of the model.
Title(label) ==
    CASE label = "family"     -> "Family"
      [] label = "criminal"   -> "Criminal"
      [] label = "civil"      -> "Civil"
      [] label = "property"   -> "Property"
      [] label = "employment" -> "Employment"
      [] label = "consumer"   -> "Consumer"
      [] label = "general"    -> "General"
      [] label = "tax"        -> "Tax"

\* format(x, '.2%'): the percentage in hundredths of a percent.
Percent(x) == x * 100

NoneText == <<"N", "o", "n", "e">>

\* ', '.join(items) if items else 'None'
JoinOrNone(items) == IF items # <<>> THEN Join(CommaSpace, items) ELSE NoneText

\* The exception create_situation_summary raises, "" when it returns: the
\* f-string's fields are evaluated left to right.
SummaryError(category_info_, sentiment_) ==
    IF category_info_.category = NoneLabel THEN "AttributeError"
    ELSE IF "label" \notin DOMAIN sentiment_ THEN "KeyError"
    ELSE IF "score" \notin DOMAIN sentiment_ THEN "KeyError"
    ELSE ""

\* The summary create_situation_summary returns (when it raises nothing).
create_situation_summary(original_text, translated_text_, category_info_, extracted_info_, sentiment_) ==
    [category        |-> Title(category_info_.category),
     confidence      |-> Percent(category_info_.confidence),
     legal_keywords  |-> JoinOrNone(extracted_info_.legal_keywords),
     dates           |-> JoinOrNone(extracted_info_.dates),
     amounts         |-> JoinOrNone(extracted_info_.amounts),
     sentiment_label |-> sentiment_.label,
     sentiment_score |-> Percent(sentiment_.score),
     description     |-> translated_text_]

----------------------------------------------------------------------------
(* The texts of the pipeline model *)

\* "court case 12/05/2023"
TextCourtDate == <<"c", "o", "u", "r", "t", " ", "c", "a", "s", "e", " ",
                   "1", "2", "/", "0", "5", "/", "2", "0", "2", "3">>

\* "Urgent threat $5,000"
TextUrgentAmount == <<"U", "r", "g", "e", "n", "t", " ", "t", "h", "r", "e", "a", "t",
                      " ", "$", "5", ",", "0", "0", "0">>

\* The Hindi and Marathi word for lawyer, then " 5 lakh"
TextVakil == <<"U+0935", "U+0915", "U+0940", "U+0932", " ", "5", " ", "l", "a", "k", "h">>

\* "lawyer 5 lakh"
TextLawyer == <<"l", "a", "w", "y", "e", "r", " ", "5", " ", "l", "a", "k", "h">>

\* "My landlord threatened to evict me immediately, rent amount U+20B9 15,000"
\* (no space after the rupee sign)
TextLandlord == <<"M", "y", " ", "l", "a", "n", "d", "l", "o", "r", "d", " ", "t", "h", "r", "e", "a", "t", "e", "n", "e", "d", " ", "t", "o", " ", "e", "v", "i", "c", "t", " ", "m", "e", " ", "i", "m", "m", "e", "d", "i", "a", "t", "e", "l", "y", ",", " ", "r", "e", "n", "t", " ", "a", "m", "o", "u", "n", "t", " ", "U+20B9", "1", "5", ",", "0", "0", "0">>

\* One space: a text that is not empty (truthy) but blank.
TextBlank == <<" ">>

\* What the user may have typed when the button is pressed.
InputTexts ==
    {<<>>, TextBlank, TextCourtDate, TextUrgentAmount, TextVakil, TextLandlord}

\* Translator.translate: a text, or an exception.
TranslateOutcomes ==
    {[kind |-> "ok", text |-> t] : t \in {TextLawyer, TextUrgentAmount}} \cup {Raised}

----------------------------------------------------------------------------
(* main(): the "Analyze Situation" branch, one action per statement *)

Unset == [unset |-> TRUE]

InitPipeline ==
    /\ pc = "Idle"
    /\ steps = <<>>
    /\ calls = <<>>
    /\ error = ""
    /\ user_input = <<>>
    /\ detected_lang = ""
    /\ translated_text = <<>>
    /\ extracted_info = Unset
    /\ category_info = Unset
    /\ sentiment = Unset
    /\ summary = Unset
    /\ advice = Unset
    /\ analysis_results = <<>>

InitUrgencyIdle ==
    /\ u_text = <<>>
    /\ u_category = ""
    /\ u_level = ""

InitAdviceIdle ==
    /\ a_terms = <<>>
    /\ a_text = <<>>
    /\ a_category = ""
    /\ a_info = Unset
    /\ a_advice = Unset

InitSessionIdle ==
    /\ heap = <<>>
    /\ results_ref = 0
    /\ produced = <<>>
    /\ templates = <<>>
    /\ cases = <<>>
    /\ runs = 0

InitConcurrentIdle == frames = <<>>

InitProcessIdle ==
    /\ st_state = <<>>
    /\ model_loads = <<>>

InitDatabaseIdle ==
    /\ db = <<>>
    /\ logger = FALSE
    /\ clock = 0
    /\ outcome = <<>>
    /\ journal = <<>>

InitServicesIdle == InitProcessIdle /\ InitDatabaseIdle

InitOthersIdle == InitSessionIdle /\ InitConcurrentIdle /\ InitServicesIdle

Init == InitPipeline /\ InitUrgencyIdle /\ InitAdviceIdle /\ InitOthersIdle

\* Mutant: the analysis started whatever the text (if user_input: dropped).
ClickAnalyze_unguarded(text) ==
    /\ pc = "Idle"
    /\ user_input' = text
    /\ pc' = "Received"
    /\ UNCHANGED <<steps, calls, error, detected_lang, translated_text,
                   extracted_info, category_info, sentiment, summary, advice,
                   analysis_results, harness_vars>>

\* if st.button("Analyze Situation"): if user_input:
ClickAnalyze(text) ==
    /\ pc = "Idle"
    /\ user_input' = text
    /\ pc' = IF text # <<>> THEN "Received" ELSE "NoAnalysis"
    /\ UNCHANGED <<steps, calls, error, detected_lang, translated_text,
                   extracted_info, category_info, sentiment, summary, advice,
                   analysis_results, harness_vars>>

\* detected_lang = analyzer.detect_language(user_input)
DetectLanguage(d) ==
    /\ pc = "Received"
    /\ detected_lang' = detect_language(d)
    /\ calls' = Append(calls, Call("detect", user_input, d))
    /\ steps' = Append(steps, "LanguageDetected")
    /\ pc' = "LanguageDetected"
    /\ UNCHANGED <<error, user_input, translated_text, extracted_info,
                   category_info, sentiment, summary, advice, analysis_results,
                   harness_vars>>

\* translated_text = analyzer.translate_text(user_input, 'en')
Translate(d, tr) ==
    /\ pc = "LanguageDetected"
    /\ translated_text' = translate_text(user_input, d, tr)
    /\ calls' = calls \o translate_calls(user_input, d, tr)
    /\ steps' = Append(steps, "Translated")
    /\ pc' = "Translated"
    /\ UNCHANGED <<error, user_input, detected_lang, extracted_info,
                   category_info, sentiment, summary, advice, analysis_results,
                   harness_vars>>

\* extracted_info = analyzer.extract_key_info(translated_text)
Extract ==
    /\ pc = "Translated"
    /\ extracted_info' = extract_key_info(translated_text)
    /\ steps' = Append(steps, "Extracted")
    /\ pc' = "Extracted"
    /\ UNCHANGED <<calls, error, user_input, detected_lang, translated_text,
                   category_info, sentiment, summary, advice, analysis_results,
                   harness_vars>>

\* category_info = analyzer.categorize_legal_issue(translated_text)
Categorize(c) ==
    /\ pc = "Extracted"
    /\ category_info' = categorize_legal_issue(c)
    /\ calls' = Append(calls, Call("classify", translated_text, c))
    /\ steps' = Append(steps, "Categorized")
    /\ pc' = "Categorized"
    /\ UNCHANGED <<error, user_input, detected_lang, translated_text,
                   extracted_info, sentiment, summary, advice, analysis_results,
                   harness_vars>>

\* sentiment = analyzer.analyze_sentiment(translated_text)
ScoreSentiment(s) ==
    /\ pc = "Categorized"
    /\ sentiment' = analyze_sentiment(s)
    /\ calls' = Append(calls, Call("sentiment", translated_text, s))
    /\ steps' = Append(steps, "SentimentScored")
    /\ pc' = "SentimentScored"
    /\ UNCHANGED <<error, user_input, detected_lang, translated_text,
                   extracted_info, category_info, summary, advice,
                   analysis_results, harness_vars>>

\* summary = analyzer.create_situation_summary(...): an exception it raises
\* is caught nowhere and ends the run of main().
Summarize ==
    /\ pc = "SentimentScored"
    /\ LET e == SummaryError(category_info, sentiment)
       IN  IF e = ""
           THEN /\ summary' = create_situation_summary(user_input, translated_text,
                                  category_info, extracted_info, sentiment)
                /\ steps' = Append(steps, "Summarized")
                /\ pc' = "Summarized"
                /\ error' = error
           ELSE /\ error' = e
                /\ pc' = "Aborted"
                /\ UNCHANGED <<summary, steps>>
    /\ UNCHANGED <<calls, user_input, detected_lang, translated_text,
                   extracted_info, category_info, sentiment, advice,
                   analysis_results, harness_vars>>

\* advice = analyzer.generate_legal_advice(category_info['category'], ...)
GenerateAdvice ==
    /\ pc = "Summarized"
    /\ advice' = generate_legal_advice(category_info.category, translated_text,
                                       extracted_info)
    /\ steps' = Append(steps, "AdviceGenerated")
    /\ pc' = "AdviceGenerated"
    /\ UNCHANGED <<calls, error, user_input, detected_lang, translated_text,
                   extracted_info, category_info, sentiment, summary,
                   analysis_results, harness_vars>>

\* Mutant: the results stored right after the summary, before the advice is
\* generated.
StoreResults_before_advice ==
    /\ pc = "Summarized"
    /\ analysis_results' = <<[original_text  |-> user_input,
                              translated_text |-> translated_text,
                              detected_lang  |-> detected_lang,
                              summary        |-> summary,
                              advice         |-> advice,
                              category_info  |-> category_info,
                              extracted_info |-> extracted_info,
                              sentiment      |-> sentiment]>>
    /\ steps' = Append(steps, "Completed")
    /\ pc' = "Completed"
    /\ UNCHANGED <<calls, error, user_input, detected_lang, translated_text,
                   extracted_info, category_info, sentiment, summary, advice,
                   harness_vars>>

\* st.session_state.analysis_results = {...}
StoreResults ==
    /\ pc = "AdviceGenerated"
    /\ analysis_results' = <<[original_text  |-> user_input,
                              translated_text |-> translated_text,
                              detected_lang  |-> detected_lang,
                              summary        |-> summary,
                              advice         |-> advice,
                              category_info  |-> category_info,
                              extracted_info |-> extracted_info,
                              sentiment      |-> sentiment]>>
    /\ steps' = Append(steps, "Completed")
    /\ pc' = "Completed"
    /\ UNCHANGED <<calls, error, user_input, detected_lang, translated_text,
                   extracted_info, category_info, sentiment, summary, advice,
                   harness_vars>>

Next ==
    \/ \E text \in InputTexts : ClickAnalyze(text)
    \/ \E d \in DetectOutcomes : DetectLanguage(d)
    \/ \E d \in DetectOutcomes, tr \in TranslateOutcomes : Translate(d, tr)
    \/ Extract
    \/ \E c \in ClassifyOutcomes : Categorize(c)
    \/ \E s \in SentimentOutcomes : ScoreSentiment(s)
    \/ Summarize
    \/ GenerateAdvice
    \/ StoreResults

Spec == Init /\ [][Next]_vars

----------------------------------------------------------------------------
(* assess_urgency on its own: every text of at most MaxWords words *)

UrgencyVocabulary == <<
    <<"u", "r", "g", "e", "n", "t">>,
    <<"T", "h", "r", "e", "a", "t">>,
    <<"v", "i", "o", "l", "e", "n", "c", "e">>,
    <<"e", "v", "i", "c", "t">>,
    <<"e", "m", "e", "r", "g", "e", "n", "c", "y">> >>

WordChoices == UNION {[1..n -> 1..Len(UrgencyVocabulary)] : n \in 0..MaxWords}

\* The words chosen, separated by single spaces.
UrgencyText(ws) == Join(<<" ">>, [i \in 1..Len(ws) |-> UrgencyVocabulary[ws[i]]])

UrgencyCategories == {"criminal", "civil", "general"}

InitUrgency ==
    /\ InitPipeline
    /\ InitAdviceIdle
    /\ InitOthersIdle
    /\ \E ws \in WordChoices : u_text = UrgencyText(ws)
    /\ u_category \in UrgencyCategories
    /\ u_level = ""

\* self.assess_urgency(text, category)
AssessUrgency ==
    /\ u_level = ""
    /\ u_level' = assess_urgency(u_text, u_category)
    /\ UNCHANGED <<pipeline_vars, u_text, u_category, advice_vars, session_vars,
                   frames, service_vars>>

NextUrgency == AssessUrgency

SpecUrgency == InitUrgency /\ [][NextUrgency]_vars

----------------------------------------------------------------------------
(* Claims about assess_urgency (checked under SpecUrgency) *)

KeywordIndexes == 1..Len(urgent_keywords)

\* The number of places of t where keyword w occurs.
Occurrences(t, w) ==
    Cardinality({i \in 0..(Len(t) - Len(w)) : SubSeq(t, i + 1, i + Len(w)) = w})

RECURSIVE SumOccurrences(_, _)
SumOccurrences(t, k) ==
    IF k > Len(urgent_keywords) THEN 0
    ELSE Occurrences(t, urgent_keywords[k]) + SumOccurrences(t, k + 1)

\* Every occurrence of every urgent keyword in t, case-insensitively.
OccurrenceCount(t) == SumOccurrences(Lower(t), 1)

\* The urgent keywords that occur in t at least once, case-insensitively.
DistinctHits(t) ==
    Cardinality({k \in KeywordIndexes : Contains(Lower(t), urgent_keywords[k])})

CriminalBonus(category) == IF category = "criminal" THEN 2 ELSE 0

TierMatchesScore(level, score) ==
    /\ level \in {"LOW", "MEDIUM", "HIGH"}
    /\ (level = "HIGH") <=> (score >= 3)
    /\ (level = "MEDIUM") <=> (score >= 1 /\ score <= 2)
    /\ (level = "LOW") <=> (score = 0)

\* C9 as stated: the score counts every occurrence of the seven urgent
\* keywords (case-insensitively, as substrings) plus 2 for category criminal;
\* the level is HIGH iff score >= 3, MEDIUM iff 1 <= score <= 2, LOW iff
\* score = 0.
C9_EveryOccurrenceCounted ==
    u_level # "" =>
        TierMatchesScore(u_level, OccurrenceCount(u_text) + CriminalBonus(u_category))

\* C9 as amended: the score counts each urgent keyword at most once (the
\* keywords that occur at least once in the lower-cased text) plus 2 for
\* category criminal; the level is HIGH iff score >= 3, MEDIUM iff
\* 1 <= score <= 2, LOW iff score = 0, and is always one of the three.
C9_DistinctKeywordsCounted ==
    u_level # "" =>
        TierMatchesScore(u_level, DistinctHits(u_text) + CriminalBonus(u_category))

\* C9's case: a keyword repeated three times was assessed, in a category
\* without bonus, and counted once.
C9_Witness ==
    /\ u_level = "MEDIUM"
    /\ u_category = "civil"
    /\ DistinctHits(u_text) = 1
    /\ OccurrenceCount(u_text) = 3

Rank(level) == CASE level = "LOW" -> 0 [] level = "MEDIUM" -> 1 [] level = "HIGH" -> 2

\* What assess_urgency returns over all the texts and categories of the
\* harness: the triples (keyword hits of the text, category, rank of the
\* level returned).
UrgencyTable ==
    {<<DistinctHits(UrgencyText(ws)), c, Rank(assess_urgency(UrgencyText(ws), c))>> :
        ws \in WordChoices, c \in UrgencyCategories}

----------------------------------------------------------------------------
(* Claims about the analysis pipeline (checked under Spec) *)

\* The analysis produced (defined once StoreResults has run).
HasResult == analysis_results # <<>>
Result == analysis_results[1]

\* The calls made to one service, in order.
CallsTo(svc) == SelectSeq(calls, LAMBDA c : c.svc = svc)

\* C1: whatever the four external calls do (succeed, raise, return a
\* malformed response), no analysis ends with an error: main() is never left
\* by an exception.
C1_NeverAborts == pc # "Aborted" /\ error = ""

SevenCategories ==
    {"family", "criminal", "civil", "property", "employment", "consumer", "general"}

\* C2: the category of every produced analysis is one of the seven values;
\* a top label outside the six known categories is replaced by general.
C2_CategoryEnumerated ==
    HasResult =>
        /\ Result.category_info.category \in SevenCategories
        /\ \A i \in 1..Len(calls) :
              (/\ calls[i].svc = "classify"
               /\ calls[i].reply.kind = "ok"
               /\ Len(calls[i].reply.labels) >= 1
               /\ Len(calls[i].reply.scores) >= 1
               /\ calls[i].reply.labels[1] \notin DOMAIN legal_categories)
              => Result.category_info.category = "general"

\* [0, 1] in hundredths.
UnitRange == 0..100

\* C3: in every produced analysis the category confidence and the sentiment
\* score lie in [0, 1], whatever the services return.
C3_ScoresInUnitRange ==
    HasResult =>
        /\ Result.category_info.confidence \in UnitRange
        /\ Result.sentiment.score \in UnitRange

\* The classifier raised, or returned a result without a first label or
\* without a first score.
ClassifierUnreadable(c) ==
    c.kind = "raise" \/ c.labels = <<>> \/ c.scores = <<>>

ClassifyFailed ==
    \E i \in 1..Len(calls) :
        calls[i].svc = "classify" /\ ClassifierUnreadable(calls[i].reply)

CivilTemplate == advice_templates["civil"]

\* C4: when the classifier call raises (or its first label or score cannot
\* be read), the category result is exactly {general, 0.5, no
\* subcategories}, the advice carries the civil template's laws and starts
\* with the civil template's base steps, and the produced analysis holds
\* these values.
C4_ClassifierFailureDefaults ==
    ClassifyFailed =>
        /\ category_info =
               [category |-> "general", confidence |-> 50, subcategories |-> <<>>]
        /\ advice # Unset =>
              /\ advice.applicable_laws = CivilTemplate.laws
              /\ IsPrefix(Literals(CivilTemplate.steps), advice.recommended_steps)
        /\ HasResult =>
              /\ Result.category_info = category_info
              /\ Result.advice = advice
              /\ advice # Unset

\* C4's case: an analysis was produced after the classifier raised.
C4_Witness ==
    /\ HasResult
    /\ \E i \in 1..Len(calls) : calls[i].svc = "classify" /\ calls[i].reply = Raised

\* C5: when the detected language is not English and the translate call
\* raises, translated_text is the original text,
\* nothing is surfaced to the caller, and the pipeline completes with every
\* later step run on the original text.
C5_TranslateFailureCompletes ==
    \A i \in 1..Len(calls) :
        (/\ detected_lang # "en"
         /\ calls[i].svc = "translate"
         /\ calls[i].reply = Raised) =>
            /\ translated_text = user_input
            /\ \A j \in (i + 1)..Len(calls) : calls[j].arg = user_input
            /\ HasResult => Result.translated_text = Result.original_text
            /\ pc # "Aborted"
            /\ error = ""

AfterTranslation ==
    pc \notin {"Idle", "NoAnalysis", "Received", "LanguageDetected"}

\* C6: when the reported detected language is "en", translate is never
\* invoked and translated_text is the original text; translate is invoked
\* only when the reported detected language differs from "en".
C6_TranslateIffReportedNonEnglish ==
    AfterTranslation =>
        /\ detected_lang = "en" =>
              (CallsTo("translate") = <<>> /\ translated_text = user_input)
        /\ CallsTo("translate") # <<>> => detected_lang # "en"

\* The sentiment call raised, or returned no first entry.
SentimentFailed(s) == s.kind = "raise" \/ s.result = <<>>

\* C7: when the sentiment call fails the sentiment is exactly
\* {NEUTRAL, 0.5}; when it succeeds the sentiment is what the service
\* returned first; the call is made on the translated text, and the produced
\* analysis holds that sentiment.
C7_SentimentDefaultOrService ==
    \A i \in 1..Len(calls) :
        calls[i].svc = "sentiment" =>
            /\ calls[i].arg = translated_text
            /\ IF SentimentFailed(calls[i].reply)
               THEN sentiment = [label |-> "NEUTRAL", score |-> 50]
               ELSE sentiment = calls[i].reply.result[1]
            /\ HasResult => Result.sentiment = sentiment

\* C7's case: an analysis was produced after the sentiment call raised.
C7_Witness ==
    /\ HasResult
    /\ \E i \in 1..Len(calls) : calls[i].svc = "sentiment" /\ calls[i].reply = Raised

\* The order of the steps as the claim gives it.
ClaimedOrder == <<"LanguageDetected", "Translated", "Extracted", "Categorized",
                  "SentimentScored", "AdviceGenerated", "Summarized", "Completed">>

\* The order of the statements of main().
CodeOrder == <<"LanguageDetected", "Translated", "Extracted", "Categorized",
               "SentimentScored", "Summarized", "AdviceGenerated", "Completed">>

----------------------------------------------------------------------------
(* extract_key_info and generate_legal_advice on their own: every text of  *)
(* at most MaxTerms terms, every category                                  *)

DateTerm == <<"1", "2", "/", "0", "5", "/", "2", "0", "2", "3">>

\* The Hindi and Marathi word for lawyer, and the Hindi word for dispute
\* (which ends in the Marathi word for suit).
VakilTerm == <<"U+0935", "U+0915", "U+0940", "U+0932">>
VivadTerm == <<"U+0935", "U+093F", "U+0935", "U+093E", "U+0926">>

AdviceVocabulary == <<
    DateTerm,
    <<"$", "5", ",", "0", "0", "0">>,
    <<"l", "a", "k", "h">>,
    <<"u", "r", "g", "e", "n", "t">>,
    <<"c", "o", "u", "r", "t">>,
    <<"h", "e", "l", "l", "o">>,
    <<"1", "/", "2", "/", "3">>,
    VakilTerm,
    VivadTerm >>

TermChoices == UNION {[1..n -> 1..Len(AdviceVocabulary)] : n \in 0..MaxTerms}

\* The terms chosen, separated by single spaces.
AdviceText(ws) == Join(<<" ">>, [i \in 1..Len(ws) |-> AdviceVocabulary[ws[i]]])

\* The six template keys, general, a label no template has, and a value
\* that is not a str.
AdviceCategories == DOMAIN advice_templates \cup {"general", "tax", NoneLabel}

InitAdvice ==
    /\ InitPipeline
    /\ InitUrgencyIdle
    /\ InitOthersIdle
    /\ a_terms \in TermChoices
    /\ a_text = AdviceText(a_terms)
    /\ a_category \in AdviceCategories
    /\ a_info = Unset
    /\ a_advice = Unset

\* self.extract_key_info(text)
ExtractInfo ==
    /\ a_info = Unset
    /\ a_info' = extract_key_info(a_text)
    /\ UNCHANGED <<pipeline_vars, urgency_vars, session_vars, frames, service_vars,
                   a_terms, a_text, a_category, a_advice>>

\* self.generate_legal_advice(category, text, extracted_info)
Advise ==
    /\ a_info # Unset
    /\ a_advice = Unset
    /\ a_advice' = generate_legal_advice(a_category, a_text, a_info)
    /\ UNCHANGED <<pipeline_vars, urgency_vars, session_vars, frames, service_vars,
                   a_terms, a_text, a_category, a_info>>

NextAdvice == ExtractInfo \/ Advise

SpecAdvice == InitAdvice /\ [][NextAdvice]_vars

----------------------------------------------------------------------------
(* Claims about generate_legal_advice and extract_key_info (checked under  *)
(* SpecAdvice)                                                             *)

KnownCategories ==
    {"family", "criminal", "civil", "property", "employment", "consumer"}

\* The template the claims name for a category: its own for the six known
\* categories, the civil one for every other value.
ClaimedTemplate(category) ==
    IF category \in KnownCategories
    THEN advice_templates[category]
    ELSE advice_templates["civil"]

OneIf(b) == IF b THEN 1 ELSE 0

\* C11: the number of recommended steps is the base template's step count,
\* plus 1 if amounts is non-empty, plus 1 if dates is non-empty; it is never
\* below the base count and never 0.
C11_StepCount ==
    a_advice # Unset =>
        LET base == Len(ClaimedTemplate(a_category).steps)
            n == Len(a_advice.recommended_steps)
        IN  /\ n = base + OneIf(a_info.amounts # <<>>) + OneIf(a_info.dates # <<>>)
            /\ n >= base
            /\ n > 0

\* C11's case: advice for a category without template, with amounts and
\* dates both extracted.
C11_Witness ==
    /\ a_advice # Unset
    /\ a_category = "tax"
    /\ a_info.amounts # <<>>
    /\ a_info.dates # <<>>

\* C12: for a category that is not one of the six template keys (general
\* included) the advice has the civil template's laws and starts with the
\* civil template's steps; for each of the six it has that category's own
\* laws and starts with its own steps.
C12_TemplateChosen ==
    a_advice # Unset =>
        /\ a_advice.applicable_laws = ClaimedTemplate(a_category).laws
        /\ IsPrefix(Literals(ClaimedTemplate(a_category).steps),
                    a_advice.recommended_steps)

\* C12's case: advice was generated for category general.
C12_Witness ==
    /\ a_advice # Unset
    /\ a_category = "general"
    /\ a_advice.applicable_laws = advice_templates["civil"].laws

----------------------------------------------------------------------------
(* Claims about whole analyses (checked under Spec) *)

RupeeAmount == <<"U+20B9", "1", "5", ",", "0", "0", "0">>

\* The landlord text was analysed as typed, the classifier answering
\* property at 0.9 and the sentiment pipeline NEGATIVE at 0.8.
LandlordScenario ==
    /\ HasResult
    /\ Result.original_text = TextLandlord
    /\ Result.translated_text = TextLandlord
    /\ Result.category_info.category = "property"
    /\ Result.category_info.confidence = 90
    /\ Result.sentiment = [label |-> "NEGATIVE", score |-> 80]

InSeq(x, s) == \E i \in 1..Len(s) : s[i] = x

\* C13 as stated: for the landlord text with classifier property at 0.9 and
\* sentiment NEGATIVE at 0.8 the urgency level is HIGH, the amounts are the
\* one rupee amount and the steps include the jurisdiction/court-fee step.
C13_LandlordHigh ==
    LandlordScenario =>
        /\ Result.advice.urgency_level = "HIGH"
        /\ Result.extracted_info.amounts = <<RupeeAmount>>
        /\ InSeq(MonetaryStep(<<RupeeAmount>>), Result.advice.recommended_steps)

\* C13 amended: for the landlord text with classifier property at 0.9 and
\* sentiment NEGATIVE at 0.8 the urgency level is MEDIUM (two urgent
\* keywords, threat and immediate, occur; eviction does not), the amounts
\* are the one rupee amount and the steps include the jurisdiction/court-fee
\* step naming that amount.
C13_LandlordMedium ==
    LandlordScenario =>
        /\ Result.advice.urgency_level = "MEDIUM"
        /\ UrgencyLoop(Lower(TextLandlord), 1, 0) = 2
        /\ Result.extracted_info.amounts = <<RupeeAmount>>
        /\ InSeq(MonetaryStep(<<RupeeAmount>>), Result.advice.recommended_steps)

\* C13's case: the scenario's analysis completed.
C13_Witness == LandlordScenario /\ pc = "Completed"

----------------------------------------------------------------------------
(* Claims about texts with and without dates, amounts and keywords         *)
(* (checked under SpecAdvice)                                              *)

\* The text has the date 12/05/2023 as a term of its own.
HasNumericDate == \E i \in 1..Len(a_terms) : AdviceVocabulary[a_terms[i]] = DateTerm

\* The text has no currency sign and no currency word.
NoMoney ==
    /\ \A i \in 1..Len(a_text) : a_text[i] \notin {RupeeSign, "$"}
    /\ \A k \in 1..Len(AmountWords) : ~Contains(Lower(a_text), AmountWords[k])

NoUrgentKeyword ==
    \A k \in 1..Len(urgent_keywords) : ~Contains(Lower(a_text), urgent_keywords[k])

IsMonetaryStep(step) == step.fmt = MonetaryStep(<<>>).fmt

NoPatternMatch ==
    \A i \in 1..Len(a_text) :
        DateMatchEnd(a_text, i) = 0 /\ AmountMatchEnd(a_text, i) = 0

NoDigit == \A i \in 1..Len(a_text) : a_text[i] \notin Digits

\* None of the listed keywords is a substring of the text, letter case
\* ignored.
NoLegalKeyword ==
    \A k \in 1..Len(keywords) : ~Contains(Lower(a_text), Lower(keywords[k]))

NothingExtracted ==
    /\ a_info.dates = <<>>
    /\ a_info.amounts = <<>>
    /\ a_info.legal_keywords = <<>>

\* C15: for a text without date pattern, amount pattern and listed keyword
\* (a text without digits and keywords in particular, the empty text
\* included), extract_key_info returns empty dates, amounts and
\* legal_keywords, and it returns for every text.
C15_NothingToExtract ==
    a_info # Unset =>
        /\ (NoPatternMatch /\ NoLegalKeyword) => NothingExtracted
        /\ (NoDigit /\ NoLegalKeyword) => NothingExtracted
        /\ DOMAIN a_info =
               {"parties_involved", "legal_keywords", "dates", "amounts", "locations"}

\* C15's case: the empty text went through extract_key_info.
C15_Witness ==
    /\ a_info # Unset
    /\ a_text = <<>>
    /\ NothingExtracted

\* The same for a text with digits and a currency word but no match.
C15_WitnessNearMiss ==
    /\ a_info # Unset
    /\ ~NoDigit
    /\ NoPatternMatch
    /\ NoLegalKeyword
    /\ NothingExtracted

----------------------------------------------------------------------------
(* Claims about empty text and about the external calls (checked under     *)
(* Spec)                                                                   *)

Requested == pc # "Idle"

C18_WitnessBlank == HasResult /\ user_input = TextBlank

Services == {"detect", "translate", "classify", "sentiment"}

\* C19: within one analysis each of detect, translate, classify and
\* sentiment is invoked at most once, whether the call succeeds or fails.
C19_NoCallReissued == \A svc \in Services : Len(CallsTo(svc)) <= 1

----------------------------------------------------------------------------
(* One browser session: main() reruns on every button press, the objects   *)
(* it creates live in a store so that two references to one list or dict   *)
(* are one object                                                          *)

\* An object is a list (items) or a dict (fields); a dict's field holds a
\* reference to another object (ref, its address) or a str or number (val).
ListObject(items) == [kind |-> "list", items |-> items, fields |-> <<>>]
DictObject(fields) == [kind |-> "dict", items |-> <<>>, fields |-> fields]
Ref(address) == [ref |-> address, val |-> <<>>]
Scalar(v) == [ref |-> 0, val |-> v]

\* A dict of strs and numbers.
FlatDict(record) == DictObject([f \in DOMAIN record |-> Scalar(record[f])])

\* The Python value at an address: a sequence for a list, a record for a
\* dict, references followed.
RECURSIVE Value(_, _)
Value(h, address) ==
    LET o == h[address]
    IN  IF o.kind = "list" THEN o.items
        ELSE [f \in DOMAIN o.fields |->
                 IF o.fields[f].ref = 0 THEN o.fields[f].val
                 ELSE Value(h, o.fields[f].ref)]

\* list.append(item) on the list at an address.
ListAppend(h, address, item) ==
    [h EXCEPT ![address].items = Append(@, item)]

\* self.legal_categories, in the order of the dict literal: its six lists
\* are the first objects of the session.
CategoryOrder == <<"family", "criminal", "civil", "property", "employment", "consumer">>

AnalyzerObjects == [i \in 1..Len(CategoryOrder) |-> ListObject(legal_categories[CategoryOrder[i]])]

CategoryAddress(label) == CHOOSE i \in 1..Len(CategoryOrder) : CategoryOrder[i] = label

\* extract_key_info(text): five lists and the dict holding them.
extract_objects(h, text) ==
    LET info == extract_key_info(text)
        n == Len(h)
    IN  [heap |-> h \o <<ListObject(info.parties_involved),
                         ListObject(info.legal_keywords),
                         ListObject(info.dates),
                         ListObject(info.amounts),
                         ListObject(info.locations),
                         DictObject([parties_involved |-> Ref(n + 1),
                                     legal_keywords   |-> Ref(n + 2),
                                     dates            |-> Ref(n + 3),
                                     amounts          |-> Ref(n + 4),
                                     locations        |-> Ref(n + 5)])>>,
         ref |-> n + 6]

\* categorize_legal_issue(text): 'subcategories' is the list that
\* self.legal_categories holds for the label, or a new empty list.
categorize_objects(h, c) ==
    LET info == categorize_legal_issue(c)
        n == Len(h)
        known == c.kind = "ok" /\ Len(c.labels) >= 1 /\ Len(c.scores) >= 1
                 /\ c.labels[1] \in DOMAIN legal_categories
    IN  IF known
        THEN [heap |-> Append(h, DictObject(
                          [category      |-> Scalar(info.category),
                           confidence    |-> Scalar(info.confidence),
                           subcategories |-> Ref(CategoryAddress(info.category))])),
              ref |-> n + 1]
        ELSE [heap |-> h \o <<ListObject(<<>>),
                              DictObject([category      |-> Scalar(info.category),
                                          confidence    |-> Scalar(info.confidence),
                                          subcategories |-> Ref(n + 1)])>>,
              ref |-> n + 2]

\* analyze_sentiment(text): the first dict of the pipeline's answer, or the
\* default dict.
sentiment_objects(h, s) ==
    [heap |-> Append(h, FlatDict(analyze_sentiment(s))), ref |-> Len(h) + 1]

\* Mutant: customized_steps = template['steps'] (no copy), the steps are
\* appended to the template's own list.
advice_objects_no_copy(h, category, text, info_ref) ==
    LET template == TemplateOf(category)
        info == Value(h, info_ref)
        n == Len(h)
        built == h \o <<ListObject(Literals(template.steps)), ListObject(template.laws)>>
        customized_steps == n + 1
        with_amounts == IF info.amounts # <<>>
                        THEN ListAppend(built, customized_steps, MonetaryStep(info.amounts))
                        ELSE built
        with_dates == IF info.dates # <<>>
                      THEN ListAppend(with_amounts, customized_steps, LimitationStep)
                      ELSE with_amounts
    IN  [heap |-> Append(with_dates, DictObject(
                     [recommended_steps |-> Ref(customized_steps),
                      applicable_laws   |-> Ref(n + 2),
                      urgency_level     |-> Scalar(assess_urgency(text, category))])),
         ref |-> n + 3,
         template |-> [steps |-> n + 1, laws |-> n + 2, of |-> template]]

\* generate_legal_advice(category, text, extracted_info): the chosen
\* template's two lists (advice_templates is built anew by every call), the
\* copy of its steps that the two ifs append to, and the dict returned,
\* whose 'applicable_laws' is the template's list itself.
advice_objects(h, category, text, info_ref) ==
    LET template == TemplateOf(category)
        info == Value(h, info_ref)
        n == Len(h)
        built == h \o <<ListObject(Literals(template.steps)), ListObject(template.laws)>>
        copied == Append(built, ListObject(built[n + 1].items))
        customized_steps == n + 3
        with_amounts == IF info.amounts # <<>>
                        THEN ListAppend(copied, customized_steps, MonetaryStep(info.amounts))
                        ELSE copied
        with_dates == IF info.dates # <<>>
                      THEN ListAppend(with_amounts, customized_steps, LimitationStep)
                      ELSE with_amounts
    IN  [heap |-> Append(with_dates, DictObject(
                     [recommended_steps |-> Ref(customized_steps),
                      applicable_laws   |-> Ref(n + 2),
                      urgency_level     |-> Scalar(assess_urgency(text, category))])),
         ref |-> n + 4,
         template |-> [steps |-> n + 1, laws |-> n + 2, of |-> template]]

\* The dict literal assigned to st.session_state.analysis_results.
results_object(h, original_text, translated_text_, detected_lang_, summary_, advice_ref, category_ref, info_ref, sentiment_ref) ==
    [heap |-> Append(h, DictObject(
                 [original_text   |-> Scalar(original_text),
                  translated_text |-> Scalar(translated_text_),
                  detected_lang   |-> Scalar(detected_lang_),
                  summary         |-> Scalar(summary_),
                  advice          |-> Ref(advice_ref),
                  category_info   |-> Ref(category_ref),
                  extracted_info  |-> Ref(info_ref),
                  sentiment       |-> Ref(sentiment_ref)])),
     ref |-> Len(h) + 1]

\* json.dumps of a list of str: a JSON text, not the list.
JsonDumps(list) == [json |-> list]

\* Mutant: the translated text stored in column original_text too.
save_case_translated_twice(table, timestamp, original_text, translated_text_, language, category, summary_, recommendations, laws) ==
    Append(table, [id              |-> Len(table) + 1,
                   timestamp       |-> timestamp,
                   original_text   |-> translated_text_,
                   translated_text |-> translated_text_,
                   language        |-> language,
                   category        |-> category,
                   summary         |-> summary_,
                   recommendations |-> JsonDumps(recommendations),
                   applicable_laws |-> JsonDumps(laws)])

\* save_case(...): one INSERT into cases (id is AUTOINCREMENT, no row is
\* ever deleted) and the commit.
save_case(table, timestamp, original_text, translated_text_, language, category, summary_, recommendations, laws) ==
    Append(table, [id              |-> Len(table) + 1,
                   timestamp       |-> timestamp,
                   original_text   |-> original_text,
                   translated_text |-> translated_text_,
                   language        |-> language,
                   category        |-> category,
                   summary         |-> summary_,
                   recommendations |-> JsonDumps(recommendations),
                   applicable_laws |-> JsonDumps(laws)])

\* What the session's user types and what the services answer.
SessionTexts == {<<>>, TextLandlord}
SessionDetect == {[kind |-> "ok", lang |-> "hi"]}
SessionDetectAgain == {[kind |-> "ok", lang |-> l] : l \in {"en", "hi"}}
SessionTranslate == {[kind |-> "ok", text |-> TextLawyer]}
SessionClassify ==
    {[kind |-> "ok", labels |-> <<l, "civil">>, scores |-> <<90, 5>>] :
        l \in {"property", "tax"}} \cup {Raised}
SessionSentiment ==
    {[kind |-> "ok", result |-> <<[label |-> "NEGATIVE", score |-> 80]>>],
     [kind |-> "ok", result |-> <<[score |-> 80]>>]}

\* datetime.now().isoformat()
Timestamps == {"2024-05-01T10:00:00", "2024-05-01T10:00:01"}

\* The session after st.session_state.analyzer = LegalSituationAnalyzer().
InitSession ==
    /\ InitPipeline
    /\ InitUrgencyIdle
    /\ InitAdviceIdle
    /\ InitConcurrentIdle
    /\ InitServicesIdle
    /\ heap = AnalyzerObjects
    /\ results_ref = 0
    /\ produced = <<>>
    /\ templates = <<>>
    /\ cases = <<>>
    /\ runs = 0

\* A rerun of main() with "Analyze Situation" pressed: the whole branch,
\* the first detect call answering d, translate_text's own detect call d2.
\* Nothing is stored for empty text, nor when create_situation_summary
\* raises (the objects of that run die with it).  Each statement's result
\* is bound once, in the order of the code.
AnalyzeSituation(text, d, d2, tr, c, s) ==
    /\ runs < MaxRuns
    /\ runs' = runs + 1
    /\ cases' = cases
    /\ IF text = <<>>
       THEN UNCHANGED <<heap, results_ref, produced, templates>>
       ELSE \E detected_lang_ \in {detect_language(d)},
               translated_text_ \in {translate_text(text, d2, tr)} :
            \E extracted \in {extract_objects(heap, translated_text_)} :
            \E categorized \in {categorize_objects(extracted.heap, c)} :
            \E scored \in {sentiment_objects(categorized.heap, s)} :
            \E category_info_ \in {Value(scored.heap, categorized.ref)},
               extracted_info_ \in {Value(scored.heap, extracted.ref)},
               sentiment_ \in {Value(scored.heap, scored.ref)} :
                IF SummaryError(category_info_, sentiment_) # ""
                THEN UNCHANGED <<heap, results_ref, produced, templates>>
                ELSE \E summary_ \in {create_situation_summary(text, translated_text_,
                                          category_info_, extracted_info_, sentiment_)} :
                     \E advised \in {advice_objects(scored.heap, category_info_.category,
                                                    translated_text_, extracted.ref)} :
                     \E stored \in {results_object(advised.heap, text, translated_text_,
                                        detected_lang_, summary_, advised.ref,
                                        categorized.ref, extracted.ref, scored.ref)} :
                         /\ heap' = stored.heap
                         /\ results_ref' = stored.ref
                         /\ produced' = Append(produced,
                                [ref |-> stored.ref,
                                 value |-> Value(stored.heap, stored.ref)])
                         /\ templates' = Append(templates, advised.template)
    /\ UNCHANGED <<pipeline_vars, urgency_vars, advice_vars, frames, service_vars>>

\* A rerun of main() with "Save Case" pressed: the button exists only while
\* 'analysis_results' is in st.session_state.
SaveCase(now) ==
    /\ results_ref # 0
    /\ Len(cases) < MaxSaves
    /\ LET results == Value(heap, results_ref)
       IN  cases' = save_case(cases, now,
                              results.original_text,
                              results.translated_text,
                              results.detected_lang,
                              results.category_info.category,
                              results.summary,
                              results.advice.recommended_steps,
                              results.advice.applicable_laws)
    /\ UNCHANGED <<heap, results_ref, produced, templates, runs>>
    /\ UNCHANGED <<pipeline_vars, urgency_vars, advice_vars, frames, service_vars>>

NextSession ==
    \/ \E text \in SessionTexts, d \in SessionDetect, d2 \in SessionDetectAgain,
          tr \in SessionTranslate, c \in SessionClassify, s \in SessionSentiment :
          AnalyzeSituation(text, d, d2, tr, c, s)
    \/ \E now \in Timestamps : SaveCase(now)

SpecSession == InitSession /\ [][NextSession]_vars

----------------------------------------------------------------------------
(* Claims about earlier results and about the saved cases (checked under   *)
(* SpecSession)                                                            *)

\* The objects a result is made of: the addresses reachable from it.
RECURSIVE Reachable(_, _)
Reachable(h, address) ==
    LET o == h[address]
    IN  {address} \cup
        UNION {Reachable(h, o.fields[f].ref) :
                  f \in {g \in DOMAIN o.fields : o.fields[g].ref # 0}}

AnalyzerAddresses == 1..Len(AnalyzerObjects)

\* Every result produced is, field by field and list by list, what it was
\* when it was produced.
ResultsUnchanged ==
    \A i \in 1..Len(produced) : Value(heap, produced[i].ref) = produced[i].value

\* Two results share no object but the analyzer's own subcategory lists.
ResultsApart ==
    \A i, j \in 1..Len(produced) :
        i # j => (Reachable(heap, produced[i].ref) \cap Reachable(heap, produced[j].ref))
                     \subseteq AnalyzerAddresses

\* The lists of every template built, and the analyzer's subcategory lists,
\* hold what the code's literals say.
TemplatesUnchanged ==
    /\ \A i \in 1..Len(templates) :
           /\ heap[templates[i].steps].items = Literals(templates[i].of.steps)
           /\ heap[templates[i].laws].items = templates[i].of.laws
    /\ SubSeq(heap, 1, Len(AnalyzerObjects)) = AnalyzerObjects

\* C17: once a result is produced, further analyses leave every field of it
\* unchanged, the contents of its lists included; each run produces a new
\* result, and no run writes into an earlier result or into the advice
\* templates.
C17_EarlierResultsUntouched ==
    /\ ResultsUnchanged
    /\ ResultsApart
    /\ TemplatesUnchanged
    /\ results_ref # 0 => results_ref = produced[Len(produced)].ref

\* C17's case: a second, different result was produced after a first one
\* whose steps had been customized.
C17_Witness ==
    /\ Len(produced) = 2
    /\ produced[1].value # produced[2].value
    /\ results_ref = produced[2].ref
    /\ produced[1].value.extracted_info.amounts # <<>>

\* The row holds the fields of analysis a.
RowCarries(row, a) ==
    /\ row.original_text = a.original_text
    /\ row.translated_text = a.translated_text
    /\ row.language = a.detected_lang
    /\ row.category = a.category_info.category
    /\ row.summary = a.summary
    /\ row.recommendations = JsonDumps(a.advice.recommended_steps)
    /\ row.applicable_laws = JsonDumps(a.advice.applicable_laws)

----------------------------------------------------------------------------
(* Several browser sessions at once: every session runs main() in a thread *)
(* of its own, with its own locals, its own st.session_state and its own   *)
(* analyzer; the threads' statements interleave                            *)

Sessions == {"s1", "s2"}

\* Mutant: the locals of main() are one set of module-level variables, used
\* by every session.
FrameOf_shared(p) == "s1"

\* The frame a session's run of main() keeps its locals in: its own.
FrameOf(p) == p

\* The locals of main() before the button is pressed.
FirstFrame ==
    [pc              |-> "Idle",
     error           |-> "",
     user_input      |-> <<>>,
     detected_lang   |-> "",
     translated_text |-> <<>>,
     extracted_info  |-> Unset,
     category_info   |-> Unset,
     sentiment       |-> Unset,
     summary         |-> Unset,
     advice          |-> Unset]

\* The statements of the analysis branch, each on a frame l.
run_click(l, text) ==
    [l EXCEPT !.user_input = text,
              !.pc = IF text # <<>> THEN "Received" ELSE "NoAnalysis"]

run_detect(l, d) ==
    [l EXCEPT !.detected_lang = detect_language(d), !.pc = "LanguageDetected"]

run_translate(l, d, tr) ==
    [l EXCEPT !.translated_text = translate_text(l.user_input, d, tr),
              !.pc = "Translated"]

run_extract(l) ==
    [l EXCEPT !.extracted_info = extract_key_info(l.translated_text),
              !.pc = "Extracted"]

run_categorize(l, c) ==
    [l EXCEPT !.category_info = categorize_legal_issue(c), !.pc = "Categorized"]

run_sentiment(l, s) ==
    [l EXCEPT !.sentiment = analyze_sentiment(s), !.pc = "SentimentScored"]

run_summary(l) ==
    LET e == SummaryError(l.category_info, l.sentiment)
    IN  IF e = ""
        THEN [l EXCEPT !.summary = create_situation_summary(l.user_input,
                                       l.translated_text, l.category_info,
                                       l.extracted_info, l.sentiment),
                       !.pc = "Summarized"]
        ELSE [l EXCEPT !.error = e, !.pc = "Aborted"]

run_advice(l) ==
    [l EXCEPT !.advice = generate_legal_advice(l.category_info.category,
                                               l.translated_text, l.extracted_info),
              !.pc = "AdviceGenerated"]

\* The dict stored in st.session_state.analysis_results.
results_of(l) ==
    [original_text   |-> l.user_input,
     translated_text |-> l.translated_text,
     detected_lang   |-> l.detected_lang,
     summary         |-> l.summary,
     advice          |-> l.advice,
     category_info   |-> l.category_info,
     extracted_info  |-> l.extracted_info,
     sentiment       |-> l.sentiment]

\* What the sessions' users type and what the services answer.
ConcurrentTexts == {<<>>, TextCourtDate, TextLandlord}
ConcurrentDetect == {[kind |-> "ok", lang |-> "hi"]}
ConcurrentDetectAgain == {[kind |-> "ok", lang |-> l] : l \in {"en", "hi"}}
ConcurrentTranslate == {[kind |-> "ok", text |-> TextLawyer]}
ConcurrentClassify ==
    {[kind |-> "ok", labels |-> <<"property", "civil">>, scores |-> <<90, 5>>], Raised}
ConcurrentSentiment ==
    {[kind |-> "ok", result |-> <<[label |-> "NEGATIVE", score |-> 80]>>], Raised}

\* No reply: the step calls no service.
NoReply == [kind |-> "none"]

\* Every session: locals as main() starts, nothing in st.session_state
\* (stored), nothing heard from the user or the services yet.
InitConcurrent ==
    /\ InitPipeline
    /\ InitUrgencyIdle
    /\ InitAdviceIdle
    /\ InitSessionIdle
    /\ InitServicesIdle
    /\ frames = [p \in Sessions |-> [local |-> FirstFrame, stored |-> <<>>, heard |-> <<>>]]

Local(p) == frames[FrameOf(p)].local

\* Session p performs its next statement: the frame it uses becomes l, what
\* it was given is added to what it heard.
Perform(p, l, given) ==
    /\ frames' = [[frames EXCEPT ![p].heard = Append(@, given)]
                     EXCEPT ![FrameOf(p)].local = l]
    /\ UNCHANGED <<pipeline_vars, urgency_vars, advice_vars, session_vars, service_vars>>

SessionClick(p, text) ==
    /\ Local(p).pc = "Idle"
    /\ Perform(p, run_click(Local(p), text), [kind |-> "text", text |-> text])

SessionDetectLanguage(p, d) ==
    /\ Local(p).pc = "Received"
    /\ Perform(p, run_detect(Local(p), d), d)

SessionTranslateText(p, d, tr) ==
    /\ Local(p).pc = "LanguageDetected"
    /\ Perform(p, run_translate(Local(p), d, tr), [kind |-> "pair", d |-> d, tr |-> tr])

SessionExtract(p) ==
    /\ Local(p).pc = "Translated"
    /\ Perform(p, run_extract(Local(p)), NoReply)

SessionCategorize(p, c) ==
    /\ Local(p).pc = "Extracted"
    /\ Perform(p, run_categorize(Local(p), c), c)

SessionScoreSentiment(p, s) ==
    /\ Local(p).pc = "Categorized"
    /\ Perform(p, run_sentiment(Local(p), s), s)

SessionSummarize(p) ==
    /\ Local(p).pc = "SentimentScored"
    /\ Perform(p, run_summary(Local(p)), NoReply)

SessionAdvise(p) ==
    /\ Local(p).pc = "Summarized"
    /\ Perform(p, run_advice(Local(p)), NoReply)

\* st.session_state.analysis_results = {...}: the session's own state.
SessionStore(p) ==
    /\ Local(p).pc = "AdviceGenerated"
    /\ frames' = [[frames EXCEPT ![p].stored = <<results_of(Local(p))>>,
                                 ![p].heard = Append(@, NoReply)]
                     EXCEPT ![FrameOf(p)].local.pc = "Completed"]
    /\ UNCHANGED <<pipeline_vars, urgency_vars, advice_vars, session_vars, service_vars>>

NextConcurrent ==
    \E p \in Sessions :
        \/ \E text \in ConcurrentTexts : SessionClick(p, text)
        \/ \E d \in ConcurrentDetect : SessionDetectLanguage(p, d)
        \/ \E d \in ConcurrentDetectAgain, tr \in ConcurrentTranslate :
              SessionTranslateText(p, d, tr)
        \/ SessionExtract(p)
        \/ \E c \in ConcurrentClassify : SessionCategorize(p, c)
        \/ \E s \in ConcurrentSentiment : SessionScoreSentiment(p, s)
        \/ SessionSummarize(p)
        \/ SessionAdvise(p)
        \/ SessionStore(p)

SpecConcurrent == InitConcurrent /\ [][NextConcurrent]_vars

----------------------------------------------------------------------------
(* Claim about interleaved analyses (checked under SpecConcurrent) *)

\* The next statement of a run alone, given what it is given.
RunStep(l, given) ==
    CASE l.pc = "Idle"             -> run_click(l, given.text)
      [] l.pc = "Received"         -> run_detect(l, given)
      [] l.pc = "LanguageDetected" -> run_translate(l, given.d, given.tr)
      [] l.pc = "Translated"       -> run_extract(l)
      [] l.pc = "Extracted"        -> run_categorize(l, given)
      [] l.pc = "Categorized"      -> run_sentiment(l, given)
      [] l.pc = "SentimentScored"  -> run_summary(l)
      [] l.pc = "Summarized"       -> run_advice(l)
      [] l.pc = "AdviceGenerated"  -> [l EXCEPT !.pc = "Completed"]

\* The frame of a run alone that was given, in order, what heard lists.
RECURSIVE RunAlone(_, _)
RunAlone(l, heard) ==
    IF heard = <<>> THEN l
    ELSE RunAlone(RunStep(l, Head(heard)), Tail(heard))

\* The result such a run alone leaves in st.session_state.
StoredAlone(heard) ==
    LET l == RunAlone(FirstFrame, heard)
    IN  IF l.pc = "Completed" THEN <<results_of(l)>> ELSE <<>>

\* C16: with the statements of several analyses interleaved in any order,
\* each analysis's locals and its result are those of a run alone with the
\* same text and the same service responses: no statement of one analysis
\* reads or writes what another analysis wrote.
C16_AsIfAlone ==
    \A p \in Sessions :
        /\ frames[p].local = RunAlone(FirstFrame, frames[p].heard)
        /\ frames[p].stored = StoredAlone(frames[p].heard)

\* C16's case: one session completed an analysis while another, given
\* another text, was in the middle of its own.
C16_Witness ==
    /\ frames["s1"].local.pc = "Extracted"
    /\ frames["s2"].stored # <<>>
    /\ frames["s2"].stored[1].original_text # frames["s1"].local.user_input
    /\ frames["s2"].stored[1].translated_text # frames["s1"].local.translated_text

----------------------------------------------------------------------------
(* Claims about the order of the steps and of the keywords (checked under  *)
(* SpecAdvice)                                                             *)

\* The customization steps the claim names for the extracted info, in the
\* claimed order.
ClaimedCustomization(info) ==
    (IF info.amounts # <<>>
     THEN <<[fmt |-> MonetaryStep(<<>>).fmt, arg |-> Join(CommaSpace, info.amounts)]>>
     ELSE <<>>)
    \o (IF info.dates # <<>> THEN <<LimitationStep>> ELSE <<>>)

\* C25: the recommended steps are the base template's steps, unchanged and
\* in template order, followed by one step naming all amounts joined in
\* extraction order when there are amounts, then by one limitation step when
\* there are dates; with both, the amounts step is second to last and the
\* limitation step last.
C25_BaseThenCustomization ==
    a_advice # Unset =>
        LET base == Literals(ClaimedTemplate(a_category).steps)
            n == Len(a_advice.recommended_steps)
        IN  /\ a_advice.recommended_steps = base \o ClaimedCustomization(a_info)
            /\ (a_info.amounts # <<>> /\ a_info.dates # <<>>) =>
                  /\ IsMonetaryStep(a_advice.recommended_steps[n - 1])
                  /\ a_advice.recommended_steps[n] = LimitationStep

\* C25's case: advice with amounts and dates both extracted, for a category
\* with a template of its own.
C25_Witness ==
    /\ a_advice # Unset
    /\ a_category = "property"
    /\ a_info.amounts # <<>>
    /\ a_info.dates # <<>>

\* The words of one language list that are contained in the lower-cased
\* text, in list order.
LanguageHits(words) ==
    SelectSeq(words, LAMBDA w : Contains(Lower(a_text), w))

CountOf(x, s) == Cardinality({i \in 1..Len(s) : s[i] = x})

TextHasTerm(term) == \E i \in 1..Len(a_terms) : AdviceVocabulary[a_terms[i]] = term

\* C26: legal_keywords has one entry per (language list, word) pair whose
\* word is contained in the lower-cased text, English list first, then
\* Hindi, then Marathi, each in list order; nothing is deduplicated: a word
\* of two lists that occurs in the text is listed twice, however often it
\* occurs.
C26_KeywordsPerListInOrder ==
    a_info # Unset =>
        /\ a_info.legal_keywords =
               LanguageHits(keywords_english) \o LanguageHits(keywords_hindi)
                   \o LanguageHits(keywords_marathi)
        /\ TextHasTerm(VakilTerm) => CountOf(VakilTerm, a_info.legal_keywords) = 2
        /\ CountOf(keywords_english[4], a_info.legal_keywords) <= 1

\* C26's case: the word of two lists occurs twice in the text and is listed
\* twice.
C26_Witness ==
    /\ a_info # Unset
    /\ a_terms = <<8, 8>>
    /\ a_info.legal_keywords = <<VakilTerm, VakilTerm>>

----------------------------------------------------------------------------
(* The process: every browser session's first run of main() builds a       *)
(* LegalSituationAnalyzer and keeps it in its st.session_state             *)

\* setup_models: both pipelines loaded; the sentiment pipeline loaded and
\* the classifier's load raising; the first load raising.  The exception is
\* caught and reported, the attributes not yet assigned stay unassigned.
LoadOutcomes == {"loaded", "classifier_failed", "failed"}

\* The handles an analyzer holds after __init__, number n of the process:
\* 0 stands for an attribute that was never assigned.
NewAnalyzer(n, how) ==
    [translator         |-> n,
     sentiment_analyzer |-> IF how = "failed" THEN 0 ELSE n,
     classifier         |-> IF how = "loaded" THEN n ELSE 0]

NoAnalyzer == [translator |-> 0, sentiment_analyzer |-> 0, classifier |-> 0]

InitProcess ==
    /\ InitPipeline
    /\ InitUrgencyIdle
    /\ InitAdviceIdle
    /\ InitSessionIdle
    /\ InitConcurrentIdle
    /\ InitDatabaseIdle
    /\ st_state = [p \in Sessions |-> [pc |-> "NotStarted", analyzer |-> NoAnalyzer, runs |-> 0]]
    /\ model_loads = <<>>

\* The first run of main() in session p: 'analyzer' is not in
\* st.session_state, a LegalSituationAnalyzer is constructed and stored.
OpenSession(p, how) ==
    /\ st_state[p].pc = "NotStarted"
    /\ LET analyzer == NewAnalyzer(Len(model_loads) + 1, how)
       IN  /\ model_loads' = Append(model_loads, [session |-> p, analyzer |-> analyzer])
           /\ st_state' = [st_state EXCEPT ![p].pc = "Ready", ![p].analyzer = analyzer]
    /\ UNCHANGED <<pipeline_vars, urgency_vars, advice_vars, session_vars, frames,
                   database_vars>>

\* A later run of main() in session p, with an analysis: 'analyzer' is in
\* st.session_state and is used as it is.
RerunWithAnalysis(p) ==
    /\ st_state[p].pc = "Ready"
    /\ st_state[p].runs < MaxReruns
    /\ st_state' = [st_state EXCEPT ![p].runs = @ + 1]
    /\ UNCHANGED <<model_loads, pipeline_vars, urgency_vars, advice_vars, session_vars,
                   frames, database_vars>>

NextProcess ==
    \E p \in Sessions :
        \/ \E how \in LoadOutcomes : OpenSession(p, how)
        \/ RerunWithAnalysis(p)

SpecProcess == InitProcess /\ [][NextProcess]_vars

\* C27: the handles to translator, classifier and sentiment analyzer are
\* initialised once for the process, completely and before any analysis
\* runs, and no analysis and no second session initialises them again.
C27_HandlesInitialisedOnce ==
    /\ Len(model_loads) <= 1
    /\ \A p \in Sessions :
           st_state[p].runs > 0 =>
               /\ st_state[p].analyzer.sentiment_analyzer # 0
               /\ st_state[p].analyzer.classifier # 0
               /\ st_state[p].analyzer = model_loads[1].analyzer

----------------------------------------------------------------------------
(* The database file (src/config_database.py and main.py's setup_database): *)
(* the tables that exist, each with its columns and its rows in rowid       *)
(* order, and the indexes.  No statement of the code deletes a row or drops *)
(* a table, so an AUTOINCREMENT id is the row's position.                   *)

NoDatabase == [tables |-> <<>>, indexes |-> {}]

NewTable(columns) == [columns |-> columns, rows |-> <<>>]

\* What a call did: the value it returned, or the exception it raised.
Return(value) == [kind |-> "return", value |-> value]

Raise(exception) == [kind |-> "raise", exception |-> exception]

\* The Python values that calls on the database take and give.
PyNone == [type |-> "NoneType"]

PyStr(str) == [type |-> "str", str |-> str]

PyInt(int) == [type |-> "int", int |-> int]

PyDict(dict) == [type |-> "dict", dict |-> dict]

Entry(call, arg, result) == [call |-> call, arg |-> arg, result |-> result]

\* dict.get(key): None for a missing key.
Get(dict, key) == IF key \in DOMAIN dict THEN dict[key] ELSE NoneLabel

\* LegalSituationAnalyzer.setup_database: the columns of its cases table.
AnalyzerCasesColumns ==
    {"id", "timestamp", "original_text", "translated_text", "language", "category",
     "summary", "recommendations", "applicable_laws"}

\* DatabaseManager.setup_database: the seven tables and their columns.
ManagerSchema ==
    [cases |->
        {"case_id", "created_at", "updated_at", "user_id", "session_id", "original_text",
         "translated_text", "detected_language", "confidence_score", "category",
         "subcategory", "urgency_level", "sentiment_score", "sentiment_label", "summary",
         "status", "is_confirmed"},
     legal_advice |->
        {"advice_id", "case_id", "advice_type", "recommendation", "applicable_law",
         "urgency_level", "estimated_cost", "timeline", "created_at"},
     extracted_entities |->
        {"entity_id", "case_id", "entity_type", "entity_value", "confidence_score",
         "start_position", "end_position"},
     user_sessions |->
        {"session_id", "user_id", "start_time", "end_time", "interaction_count",
         "language_preference", "status"},
     legal_knowledge |->
        {"knowledge_id", "category", "subcategory", "law_section", "description",
         "keywords", "applicability", "created_at", "updated_at"},
     user_feedback |->
        {"feedback_id", "case_id", "session_id", "rating", "feedback_text",
         "feedback_category", "created_at"},
     model_performance |->
        {"performance_id", "model_name", "accuracy_score", "precision_score",
         "recall_score", "f1_score", "test_date", "dataset_size", "notes"}]

\* The four indexes, all on cases, in the order they are created.
ManagerIndexes ==
    <<[name |-> "idx_cases_category",   column |-> "category"],
      [name |-> "idx_cases_language",   column |-> "detected_language"],
      [name |-> "idx_cases_created_at", column |-> "created_at"],
      [name |-> "idx_cases_urgency",    column |-> "urgency_level"]>>

\* CREATE TABLE IF NOT EXISTS: a table of that name is left as it is, whatever
\* its columns.
CreateTables(d, schema) ==
    [d EXCEPT !.tables =
        [t \in DOMAIN d.tables \cup DOMAIN schema |->
            IF t \in DOMAIN d.tables THEN d.tables[t] ELSE NewTable(schema[t])]]

\* CREATE INDEX IF NOT EXISTS ... ON cases (column), one after the other: an
\* index on a column the table does not have raises OperationalError; what
\* was created before stays (sqlite3 runs DDL outside of a transaction).
RECURSIVE CreateIndexes(_, _)
CreateIndexes(d, todo) ==
    IF todo = <<>> THEN [db |-> d, raised |-> ""]
    ELSE IF Head(todo).name \in d.indexes THEN CreateIndexes(d, Tail(todo))
    ELSE IF Head(todo).column \in d.tables["cases"].columns
         THEN CreateIndexes([d EXCEPT !.indexes = @ \cup {Head(todo).name}], Tail(todo))
         ELSE [db |-> d, raised |-> "OperationalError"]

\* LegalSituationAnalyzer.setup_database: connect, create cases, commit.
Analyzer_setup_database(d) == CreateTables(d, [cases |-> AnalyzerCasesColumns])

\* DatabaseManager.setup_database on an object whose attribute logger is, or
\* is not, assigned: the tables, the indexes, the commit, and then
\* self.logger.info(...).
DatabaseManager_setup_database(d, has_logger) ==
    LET done == CreateIndexes(CreateTables(d, ManagerSchema), ManagerIndexes)
    IN  IF done.raised # "" THEN done
        ELSE IF has_logger THEN done
        ELSE [db |-> done.db, raised |-> "AttributeError"]

\* DatabaseManager.__init__: self.db_name, self.setup_database(), and then
\* self.setup_logging(), which is what assigns self.logger.
DatabaseManager_init(d) ==
    LET done == DatabaseManager_setup_database(d, FALSE)
    IN  [db |-> done.db, raised |-> done.raised, logger |-> done.raised = ""]

\* INSERT INTO table (columns): OperationalError when the table is missing or
\* has no column of one of the names.
InsertAccepted(d, table, columns) ==
    /\ table \in DOMAIN d.tables
    /\ columns \subseteq d.tables[table].columns

InsertRow(d, table, row) == [d EXCEPT !.tables[table].rows = Append(@, row)]

\* datetime.now().isoformat() and sqlite's CURRENT_TIMESTAMP at time now.
IsoFormat(now) == [isoformat |-> now]

CurrentTimestamp(now) == [timestamp |-> now]

\* LegalSituationAnalyzer.save_case on the database file.
Analyzer_save_case(d, now, a) ==
    IF InsertAccepted(d, "cases", AnalyzerCasesColumns \ {"id"})
    THEN [db |-> [d EXCEPT !.tables["cases"].rows =
                     save_case(@, IsoFormat(now), a.original_text, a.translated_text,
                               a.language, a.category, a.summary, a.recommendations,
                               a.laws)],
          result |-> Return(PyNone)]
    ELSE [db |-> d, result |-> Raise("OperationalError")]

InsertCaseColumns ==
    {"user_id", "session_id", "original_text", "translated_text", "detected_language",
     "confidence_score", "category", "subcategory", "urgency_level", "sentiment_score",
     "sentiment_label", "summary"}

\* The row of cases that insert_case's INSERT makes: the twelve values, the
\* AUTOINCREMENT id and the column defaults.
CaseRow(case_id, now, case_data) ==
    [case_id           |-> case_id,
     created_at        |-> CurrentTimestamp(now),
     updated_at        |-> CurrentTimestamp(now),
     user_id           |-> Get(case_data, "user_id"),
     session_id        |-> Get(case_data, "session_id"),
     original_text     |-> case_data["original_text"],
     translated_text   |-> Get(case_data, "translated_text"),
     detected_language |-> Get(case_data, "detected_language"),
     confidence_score  |-> Get(case_data, "confidence_score"),
     category          |-> Get(case_data, "category"),
     subcategory       |-> Get(case_data, "subcategory"),
     urgency_level     |-> Get(case_data, "urgency_level"),
     sentiment_score   |-> Get(case_data, "sentiment_score"),
     sentiment_label   |-> Get(case_data, "sentiment_label"),
     summary           |-> Get(case_data, "summary"),
     status            |-> "active",
     is_confirmed      |-> FALSE]

\* DatabaseManager.insert_case: the INSERT, cursor.lastrowid, the commit, and
\* then self.logger.info(...) and the return.
DatabaseManager_insert_case(d, has_logger, now, case_data) ==
    IF "original_text" \notin DOMAIN case_data THEN [db |-> d, result |-> Raise("KeyError")]
    ELSE IF ~InsertAccepted(d, "cases", InsertCaseColumns)
         THEN [db |-> d, result |-> Raise("OperationalError")]
    ELSE IF case_data["original_text"] = NoneLabel
         THEN [db |-> d, result |-> Raise("IntegrityError")]
    ELSE LET case_id == Len(d.tables["cases"].rows) + 1
             stored == InsertRow(d, "cases", CaseRow(case_id, now, case_data))
         IN  IF has_logger THEN [db |-> stored, result |-> Return(PyInt(case_id))]
             ELSE [db |-> stored, result |-> Raise("AttributeError")]

----------------------------------------------------------------------------
(* Setting up legal_cases.db: both classes open the same file by default    *)

\* Two analyses that "Save Case" may store, and three dicts given to
\* insert_case; the last has no 'original_text'.
SavedAnalyses ==
    {[original_text |-> "rent is due", translated_text |-> "rent is due", language |-> "en",
      category |-> "property", summary |-> "summary 1", recommendations |-> <<"step 1">>,
      laws |-> <<"law 1">>],
     [original_text |-> "kiraya", translated_text |-> "rent", language |-> "hi",
      category |-> "civil", summary |-> "summary 2", recommendations |-> <<>>,
      laws |-> <<>>]}

CaseDatas ==
    {[original_text |-> "rent is due"],
     [original_text |-> "kiraya", translated_text |-> "rent", detected_language |-> "hi",
      category |-> "property", user_id |-> "u1", summary |-> "summary 2"],
     [category |-> "family"]}

\* Whether an object of the class was made: for DatabaseManager, the object
\* that __init__ was working on.
Made(class) == \E i \in 1..Len(journal) : journal[i].call = class

Record(call, arg, result) ==
    /\ outcome' = result
    /\ journal' = Append(journal, Entry(call, arg, result))

InitSetup ==
    /\ InitPipeline
    /\ InitUrgencyIdle
    /\ InitAdviceIdle
    /\ InitSessionIdle
    /\ InitConcurrentIdle
    /\ InitProcessIdle
    /\ db = NoDatabase
    /\ logger = FALSE
    /\ clock = 0
    /\ outcome = Return(PyNone)
    /\ journal = <<>>

\* LegalSituationAnalyzer(): its setup_database.
ConstructAnalyzer ==
    /\ Len(journal) < MaxCalls
    /\ db' = Analyzer_setup_database(db)
    /\ Record("LegalSituationAnalyzer", PyNone, Return(PyNone))
    /\ UNCHANGED <<logger, clock>>
    /\ UNCHANGED <<pipeline_vars, urgency_vars, advice_vars, session_vars, frames, process_vars>>

\* DatabaseManager().
ConstructDatabaseManager ==
    /\ Len(journal) < MaxCalls
    /\ \E done \in {DatabaseManager_init(db)} :
           /\ db' = done.db
           /\ logger' = done.logger
           /\ Record("DatabaseManager", PyNone,
                     IF done.raised = "" THEN Return(PyNone) ELSE Raise(done.raised))
    /\ UNCHANGED clock
    /\ UNCHANGED <<pipeline_vars, urgency_vars, advice_vars, session_vars, frames, process_vars>>

\* analyzer.save_case(...), the "Save Case" button.
AnalyzerSaveCase(a) ==
    /\ Len(journal) < MaxCalls
    /\ Made("LegalSituationAnalyzer")
    /\ \E done \in {Analyzer_save_case(db, clock, a)} :
           /\ db' = done.db
           /\ Record("save_case", a, done.result)
    /\ UNCHANGED <<logger, clock>>
    /\ UNCHANGED <<pipeline_vars, urgency_vars, advice_vars, session_vars, frames, process_vars>>

\* db_manager.insert_case(case_data).
ManagerInsertCase(case_data) ==
    /\ Len(journal) < MaxCalls
    /\ Made("DatabaseManager")
    /\ \E done \in {DatabaseManager_insert_case(db, logger, clock, case_data)} :
           /\ db' = done.db
           /\ Record("insert_case", case_data, done.result)
    /\ UNCHANGED <<logger, clock>>
    /\ UNCHANGED <<pipeline_vars, urgency_vars, advice_vars, session_vars, frames, process_vars>>

NextSetup ==
    \/ ConstructAnalyzer
    \/ ConstructDatabaseManager
    \/ \E a \in SavedAnalyses : AnalyzerSaveCase(a)
    \/ \E case_data \in CaseDatas : ManagerInsertCase(case_data)

SpecSetup == InitSetup /\ [][NextSetup]_vars

----------------------------------------------------------------------------
(* Claims about setting up the database (checked under SpecSetup) *)

\* C21: DatabaseManager() on a fresh database returns, and then the seven
\* tables exist and self.logger is assigned.
C21_ConstructorCompletes ==
    (Len(journal) >= 1 /\ journal[1].call = "DatabaseManager") =>
        /\ journal[1].result.kind = "return"
        /\ logger
        /\ DOMAIN ManagerSchema \subseteq DOMAIN db.tables

\* C29: whichever of the two setup_database ran first on legal_cases.db,
\* save_case returns and adds one row to cases.
C29_SaveCaseAnyOrder ==
    [][\A a \in SavedAnalyses :
           AnalyzerSaveCase(a) =>
               /\ outcome'.kind = "return"
               /\ Len(db'.tables["cases"].rows) = Len(db.tables["cases"].rows) + 1]_vars

----------------------------------------------------------------------------
(* User sessions: SessionManager and DatabaseManager.cleanup_old_sessions   *)

\* A column that holds NULL where a timestamp may be.
NullTimestamp == [null |-> TRUE]

Rows(d, table) == d.tables[table].rows

\* UPDATE table SET ... WHERE ...: the rows that match are changed in place.
UpdateRows(d, table, Where(_), Set(_)) ==
    [d EXCEPT !.tables[table].rows =
        [i \in DOMAIN @ |-> IF Where(@[i]) THEN Set(@[i]) ELSE @[i]]]

\* The row that create_session's INSERT makes, with the column defaults.
SessionRow(session_id, user_id, language_preference, now) ==
    [session_id          |-> session_id,
     user_id             |-> user_id,
     start_time          |-> CurrentTimestamp(now),
     end_time            |-> NullTimestamp,
     interaction_count   |-> 0,
     language_preference |-> language_preference,
     status              |-> "active"]

HasSession(d, session_id) ==
    \E i \in DOMAIN Rows(d, "user_sessions") : Rows(d, "user_sessions")[i].session_id = session_id

\* SessionManager.create_session, session_id being what str(uuid.uuid4())
\* gave: session_id is the PRIMARY KEY of user_sessions.
SessionManager_create_session(d, session_id, user_id, language_preference, now) ==
    IF HasSession(d, session_id) THEN [db |-> d, result |-> Raise("IntegrityError")]
    ELSE [db     |-> InsertRow(d, "user_sessions",
                               SessionRow(session_id, user_id, language_preference, now)),
          result |-> Return(PyStr(session_id))]

\* SessionManager.update_session_activity.
SessionManager_update_session_activity(d, session_id) ==
    [db     |-> UpdateRows(d, "user_sessions",
                           LAMBDA r : r.session_id = session_id,
                           LAMBDA r : [r EXCEPT !.interaction_count = @ + 1]),
     result |-> Return(PyNone)]

\* Mutant: the UPDATE of end_session without its WHERE clause.
SessionManager_end_session_all(d, session_id, now) ==
    [db     |-> UpdateRows(d, "user_sessions",
                           LAMBDA r : TRUE,
                           LAMBDA r : [r EXCEPT !.end_time = CurrentTimestamp(now),
                                                !.status = "ended"]),
     result |-> Return(PyNone)]

\* SessionManager.end_session.
SessionManager_end_session(d, session_id, now) ==
    [db     |-> UpdateRows(d, "user_sessions",
                           LAMBDA r : r.session_id = session_id,
                           LAMBDA r : [r EXCEPT !.end_time = CurrentTimestamp(now),
                                                !.status = "ended"]),
     result |-> Return(PyNone)]

\* SessionManager.get_session_info: the row as a dict, or None.
SessionManager_get_session_info(d, session_id) ==
    IF HasSession(d, session_id)
    THEN Return(PyDict(CHOOSE r \in {Rows(d, "user_sessions")[i] : i \in DOMAIN Rows(d, "user_sessions")} :
                           r.session_id = session_id))
    ELSE Return(PyNone)

\* start_time < datetime('now', '-{} days'.format(days)): with a negative
\* days the modifier reads '--1 days', datetime() gives NULL and the
\* comparison is true of no row.
StartedBefore(r, now, days) == days >= 0 /\ r.start_time.timestamp < now - days

\* Mutant: the UPDATE without AND status = 'active'.
DatabaseManager_cleanup_old_sessions_any_status(d, has_logger, now, days) ==
    LET Old(r) == StartedBefore(r, now, days)
        deleted_count == Cardinality({i \in DOMAIN Rows(d, "user_sessions") : Old(Rows(d, "user_sessions")[i])})
        updated == UpdateRows(d, "user_sessions", Old, LAMBDA r : [r EXCEPT !.status = "expired"])
    IN  IF has_logger THEN [db |-> updated, result |-> Return(PyInt(deleted_count))]
        ELSE [db |-> updated, result |-> Raise("AttributeError")]

\* DatabaseManager.cleanup_old_sessions: the UPDATE, the commit,
\* cursor.rowcount, and then self.logger.info(...) and the return.
DatabaseManager_cleanup_old_sessions(d, has_logger, now, days) ==
    LET Old(r) == StartedBefore(r, now, days) /\ r.status = "active"
        deleted_count == Cardinality({i \in DOMAIN Rows(d, "user_sessions") : Old(Rows(d, "user_sessions")[i])})
        updated == UpdateRows(d, "user_sessions", Old, LAMBDA r : [r EXCEPT !.status = "expired"])
    IN  IF has_logger THEN [db |-> updated, result |-> Return(PyInt(deleted_count))]
        ELSE [db |-> updated, result |-> Raise("AttributeError")]

\* What uuid4 may give, the callers' arguments, and the days of a cleanup.
SessionIds == {"uuid-1", "uuid-2"}
UserIds == {NoneLabel}
LanguagePreferences == {"en"}
CleanupDays == {-1, 0, 1}

\* The database after DatabaseManager() was attempted on a fresh file: the
\* tables are there, the logger is not.
InitSessions ==
    /\ InitPipeline
    /\ InitUrgencyIdle
    /\ InitAdviceIdle
    /\ InitSessionIdle
    /\ InitConcurrentIdle
    /\ InitProcessIdle
    /\ db = DatabaseManager_init(NoDatabase).db
    /\ logger = DatabaseManager_init(NoDatabase).logger
    /\ clock = 0
    /\ outcome = Return(PyNone)
    /\ journal = <<>>

CreateSession(session_id, user_id, language_preference) ==
    /\ \E done \in {SessionManager_create_session(db, session_id, user_id, language_preference, clock)} :
           db' = done.db /\ outcome' = done.result
    /\ UNCHANGED <<logger, clock, journal>>
    /\ UNCHANGED <<pipeline_vars, urgency_vars, advice_vars, session_vars, frames, process_vars>>

UpdateSessionActivity(session_id) ==
    /\ \A i \in DOMAIN Rows(db, "user_sessions") :
           Rows(db, "user_sessions")[i].session_id = session_id =>
               Rows(db, "user_sessions")[i].interaction_count < MaxInteractions
    /\ \E done \in {SessionManager_update_session_activity(db, session_id)} :
           db' = done.db /\ outcome' = done.result
    /\ UNCHANGED <<logger, clock, journal>>
    /\ UNCHANGED <<pipeline_vars, urgency_vars, advice_vars, session_vars, frames, process_vars>>

EndSession(session_id) ==
    /\ \E done \in {SessionManager_end_session(db, session_id, clock)} :
           db' = done.db /\ outcome' = done.result
    /\ UNCHANGED <<logger, clock, journal>>
    /\ UNCHANGED <<pipeline_vars, urgency_vars, advice_vars, session_vars, frames, process_vars>>

GetSessionInfo(session_id) ==
    /\ outcome' = SessionManager_get_session_info(db, session_id)
    /\ UNCHANGED <<db, logger, clock, journal>>
    /\ UNCHANGED <<pipeline_vars, urgency_vars, advice_vars, session_vars, frames, process_vars>>

CleanupOldSessions(days) ==
    /\ \E done \in {DatabaseManager_cleanup_old_sessions(db, logger, clock, days)} :
           db' = done.db /\ outcome' = done.result
    /\ UNCHANGED <<logger, clock, journal>>
    /\ UNCHANGED <<pipeline_vars, urgency_vars, advice_vars, session_vars, frames, process_vars>>

\* A day passes.
Tick ==
    /\ clock < MaxDays
    /\ clock' = clock + 1
    /\ UNCHANGED <<db, logger, outcome, journal>>
    /\ UNCHANGED <<pipeline_vars, urgency_vars, advice_vars, session_vars, frames, process_vars>>

NextSessions ==
    \/ \E session_id \in SessionIds, user_id \in UserIds, language_preference \in LanguagePreferences :
           CreateSession(session_id, user_id, language_preference)
    \/ \E session_id \in SessionIds : UpdateSessionActivity(session_id)
    \/ \E session_id \in SessionIds : EndSession(session_id)
    \/ \E session_id \in SessionIds : GetSessionInfo(session_id)
    \/ \E days \in CleanupDays : CleanupOldSessions(days)
    \/ Tick

SpecSessions == InitSessions /\ [][NextSessions]_vars

----------------------------------------------------------------------------
(* Claims about user sessions (checked under SpecSessions) *)

SessionsOf(d) == Rows(d, "user_sessions")

\* The rows that were there are still there, and those that P admits are
\* what they were.
Kept(P(_)) ==
    /\ Len(SessionsOf(db')) >= Len(SessionsOf(db))
    /\ \A i \in DOMAIN SessionsOf(db) : P(SessionsOf(db)[i]) => SessionsOf(db')[i] = SessionsOf(db)[i]

C23_CleanupExpiresAndCounts ==
    [][\A days \in CleanupDays :
           CleanupOldSessions(days) =>
               LET Due(r) == r.status = "active" /\ clock - r.start_time.timestamp > days
               IN  /\ Len(SessionsOf(db')) = Len(SessionsOf(db))
                   /\ \A i \in DOMAIN SessionsOf(db) :
                          SessionsOf(db')[i] =
                              IF Due(SessionsOf(db)[i])
                              THEN [SessionsOf(db)[i] EXCEPT !.status = "expired"]
                              ELSE SessionsOf(db)[i]
                   /\ outcome' = Return(PyInt(Cardinality({i \in DOMAIN SessionsOf(db) : Due(SessionsOf(db)[i])})))]_vars

\* C30: a status is active, ended or expired; a session that is ended or
\* expired is never active again; an ended session never becomes expired;
\* update_session_activity adds one to the interaction_count of the session
\* it names and changes nothing else.
C30_StatusTransitions ==
    [][/\ \A i \in DOMAIN SessionsOf(db') : SessionsOf(db')[i].status \in {"active", "ended", "expired"}
       /\ Len(SessionsOf(db')) >= Len(SessionsOf(db))
       /\ \A i \in DOMAIN SessionsOf(db) :
              /\ SessionsOf(db')[i].session_id = SessionsOf(db)[i].session_id
              /\ SessionsOf(db)[i].status # "active" => SessionsOf(db')[i].status # "active"
              /\ SessionsOf(db)[i].status = "ended" => SessionsOf(db')[i].status # "expired"
       /\ \A session_id \in SessionIds :
              UpdateSessionActivity(session_id) =>
                  /\ Len(SessionsOf(db')) = Len(SessionsOf(db))
                  /\ \A i \in DOMAIN SessionsOf(db) :
                         SessionsOf(db')[i] =
                             IF SessionsOf(db)[i].session_id = session_id
                             THEN [SessionsOf(db)[i] EXCEPT !.interaction_count = @ + 1]
                             ELSE SessionsOf(db)[i]]_vars

\* A session ended on the day it started and counted once since, beside a
\* session of the same day that a later cleanup marked expired.
C30_Witness ==
    \E i, j \in DOMAIN SessionsOf(db) :
        /\ SessionsOf(db)[i].status = "ended"
        /\ SessionsOf(db)[i].end_time = SessionsOf(db)[i].start_time
        /\ SessionsOf(db)[i].interaction_count = 1
        /\ SessionsOf(db)[j].status = "expired"
        /\ SessionsOf(db)[j].start_time = SessionsOf(db)[i].start_time

----------------------------------------------------------------------------
(* Cases with their advice and entities: DatabaseManager.insert_case,       *)
(* insert_legal_advice, insert_extracted_entities, get_case_with_advice     *)

\* dict.get(key, default).
GetOr(dict, key, default) == IF key \in DOMAIN dict THEN dict[key] ELSE default

\* The row of legal_advice made for one recommendation.
AdviceRow(advice_id, now, case_id, advice_data, recommendation) ==
    [advice_id      |-> advice_id,
     case_id        |-> case_id,
     advice_type    |-> GetOr(advice_data, "type", "general"),
     recommendation |-> recommendation,
     applicable_law |-> JsonDumps(GetOr(advice_data, "applicable_laws", <<>>)),
     urgency_level  |-> Get(advice_data, "urgency_level"),
     estimated_cost |-> Get(advice_data, "estimated_cost"),
     timeline       |-> Get(advice_data, "timeline"),
     created_at     |-> CurrentTimestamp(now)]

\* The row of extracted_entities made for one entity.
EntityRow(entity_id, case_id, entity) ==
    [entity_id        |-> entity_id,
     case_id          |-> case_id,
     entity_type      |-> Get(entity, "type"),
     entity_value     |-> Get(entity, "value"),
     confidence_score |-> GetOr(entity, "confidence", 0),
     start_position   |-> GetOr(entity, "start", 0),
     end_position     |-> GetOr(entity, "end", 0)]

\* The for loops: one INSERT per element, in order.
InsertEach(d, table, list, RowOf(_, _)) ==
    [d EXCEPT !.tables[table].rows =
        @ \o [i \in 1..Len(list) |-> RowOf(Len(@) + i, list[i])]]

\* DatabaseManager.insert_legal_advice: the INSERTs, the commit, and then
\* self.logger.info(...).
DatabaseManager_insert_legal_advice(d, has_logger, now, case_id, advice_data) ==
    LET stored == InsertEach(d, "legal_advice", GetOr(advice_data, "recommendations", <<>>),
                             LAMBDA advice_id, recommendation : AdviceRow(advice_id, now, case_id, advice_data, recommendation))
    IN  IF has_logger THEN [db |-> stored, result |-> Return(PyNone)]
        ELSE [db |-> stored, result |-> Raise("AttributeError")]

\* DatabaseManager.insert_extracted_entities: the same for the entities.
DatabaseManager_insert_extracted_entities(d, has_logger, case_id, entities) ==
    LET stored == InsertEach(d, "extracted_entities", entities,
                             LAMBDA entity_id, entity : EntityRow(entity_id, case_id, entity))
    IN  IF has_logger THEN [db |-> stored, result |-> Return(PyNone)]
        ELSE [db |-> stored, result |-> Raise("AttributeError")]

\* DatabaseManager.get_case_with_advice: None when no case has the id, else
\* the case's columns and, under 'advice' and 'entities', the rows of the two
\* tables WHERE case_id = ?.
DatabaseManager_get_case_with_advice(d, case_id) ==
    IF case_id \notin DOMAIN Rows(d, "cases") THEN Return(PyNone)
    ELSE Return(PyDict(
             [advice   |-> SelectSeq(Rows(d, "legal_advice"), LAMBDA r : r.case_id = case_id),
              entities |-> SelectSeq(Rows(d, "extracted_entities"), LAMBDA r : r.case_id = case_id)]
             @@ Rows(d, "cases")[case_id]))

\* The callers' arguments.
CaseIds == {1, 2}

AdviceDatas ==
    {[recommendations |-> <<"step 1", "step 2">>, applicable_laws |-> <<"law 1">>],
     [type |-> "urgent", recommendations |-> <<"step 3">>]}

EntityLists == {<<[type |-> "money", value |-> "5000"]>>}

InitCases ==
    /\ InitPipeline
    /\ InitUrgencyIdle
    /\ InitAdviceIdle
    /\ InitSessionIdle
    /\ InitConcurrentIdle
    /\ InitProcessIdle
    /\ db = DatabaseManager_init(NoDatabase).db
    /\ logger = DatabaseManager_init(NoDatabase).logger
    /\ clock = 0
    /\ outcome = Return(PyNone)
    /\ journal = <<>>

InsertCase(case_data) ==
    /\ Len(journal) < MaxStores
    /\ \E done \in {DatabaseManager_insert_case(db, logger, clock, case_data)} :
           /\ db' = done.db
           /\ Record("insert_case", case_data, done.result)
    /\ UNCHANGED <<logger, clock>>
    /\ UNCHANGED <<pipeline_vars, urgency_vars, advice_vars, session_vars, frames, process_vars>>

InsertLegalAdvice(case_id, advice_data) ==
    /\ Len(journal) < MaxStores
    /\ \E done \in {DatabaseManager_insert_legal_advice(db, logger, clock, case_id, advice_data)} :
           /\ db' = done.db
           /\ Record("insert_legal_advice", [case_id |-> case_id, advice_data |-> advice_data], done.result)
    /\ UNCHANGED <<logger, clock>>
    /\ UNCHANGED <<pipeline_vars, urgency_vars, advice_vars, session_vars, frames, process_vars>>

InsertExtractedEntities(case_id, entities) ==
    /\ Len(journal) < MaxStores
    /\ \E done \in {DatabaseManager_insert_extracted_entities(db, logger, case_id, entities)} :
           /\ db' = done.db
           /\ Record("insert_extracted_entities", [case_id |-> case_id, entities |-> entities], done.result)
    /\ UNCHANGED <<logger, clock>>
    /\ UNCHANGED <<pipeline_vars, urgency_vars, advice_vars, session_vars, frames, process_vars>>

GetCaseWithAdvice(case_id) ==
    /\ outcome' = DatabaseManager_get_case_with_advice(db, case_id)
    /\ UNCHANGED <<db, logger, clock, journal>>
    /\ UNCHANGED <<pipeline_vars, urgency_vars, advice_vars, session_vars, frames, process_vars>>

NextCases ==
    \/ \E case_data \in CaseDatas : InsertCase(case_data)
    \/ \E case_id \in CaseIds, advice_data \in AdviceDatas : InsertLegalAdvice(case_id, advice_data)
    \/ \E case_id \in CaseIds, entities \in EntityLists : InsertExtractedEntities(case_id, entities)
    \/ \E case_id \in CaseIds : GetCaseWithAdvice(case_id)

SpecCases == InitCases /\ [][NextCases]_vars

----------------------------------------------------------------------------
(* Claim about stored cases (checked under SpecCases) *)

\* The insert_case calls that returned case_id.
ReturnedBy(case_id) ==
    {i \in DOMAIN journal :
        journal[i].call = "insert_case" /\ journal[i].result = Return(PyInt(case_id))}

\* The calls of one method for case_id, in call order.
GivenFor(call, case_id) ==
    SelectSeq(journal, LAMBDA e : e.call = call /\ e.arg.case_id = case_id)

RECURSIVE Flatten(_)
Flatten(lists) == IF lists = <<>> THEN <<>> ELSE Head(lists) \o Flatten(Tail(lists))

\* C24: get_case_with_advice(id) gives None for an id that insert_case never
\* returned; for a returned id (returned once only) it gives the values that
\* were saved, one advice entry per recommendation inserted for the id and
\* the entities inserted for the id.
C24_RoundTrip ==
    [][\A case_id \in CaseIds :
           GetCaseWithAdvice(case_id) =>
               IF ReturnedBy(case_id) = {} THEN outcome' = Return(PyNone)
               ELSE LET case_data == journal[CHOOSE i \in ReturnedBy(case_id) : TRUE].arg
                        advised == GivenFor("insert_legal_advice", case_id)
                        recommendations ==
                            Flatten([i \in DOMAIN advised |->
                                        GetOr(advised[i].arg.advice_data, "recommendations", <<>>)])
                        extracted == GivenFor("insert_extracted_entities", case_id)
                        entities == Flatten([i \in DOMAIN extracted |-> extracted[i].arg.entities])
                        got == outcome'.value.dict
                    IN  /\ Cardinality(ReturnedBy(case_id)) = 1
                        /\ outcome'.kind = "return"
                        /\ outcome'.value.type = "dict"
                        /\ \A key \in DOMAIN case_data : got[key] = case_data[key]
                        /\ Len(got.advice) = Len(recommendations)
                        /\ \A i \in DOMAIN got.advice :
                               /\ got.advice[i].case_id = case_id
                               /\ got.advice[i].recommendation = recommendations[i]
                        /\ Len(got.entities) = Len(entities)
                        /\ \A i \in DOMAIN got.entities :
                               /\ got.entities[i].case_id = case_id
                               /\ got.entities[i].entity_value = entities[i].value]_vars

----------------------------------------------------------------------------
(* The legal knowledge base: LegalKnowledgeBase                             *)

KnowledgeColumns ==
    {"category", "subcategory", "law_section", "description", "keywords", "applicability"}

\* populate_initial_knowledge: the five entries, in order.
InitialKnowledge ==
    <<[category      |-> "family",
       subcategory   |-> "divorce",
       law_section   |-> "Hindu Marriage Act, 1955 - Section 13",
       description   |-> "Grounds for divorce including cruelty, desertion, adultery, conversion, mental disorder, and communicable disease",
       keywords      |-> "divorce, cruelty, desertion, adultery, mental disorder",
       applicability |-> "Hindus, Buddhists, Sikhs, Jains"],
      [category      |-> "criminal",
       subcategory   |-> "theft",
       law_section   |-> "Indian Penal Code, 1860 - Section 378",
       description   |-> "Whoever intends to take dishonestly any movable property out of the possession of any person without that person's consent",
       keywords      |-> "theft, stealing, dishonestly, movable property",
       applicability |-> "All citizens of India"],
      [category      |-> "property",
       subcategory   |-> "registration",
       law_section   |-> "Registration Act, 1908 - Section 17",
       description   |-> "Documents relating to immovable property must be registered",
       keywords      |-> "property registration, immovable property, documents",
       applicability |-> "All property transactions in India"],
      [category      |-> "employment",
       subcategory   |-> "termination",
       law_section   |-> "Industrial Disputes Act, 1947 - Section 25F",
       description   |-> "Conditions for valid retrenchment including notice period and compensation",
       keywords      |-> "termination, retrenchment, notice period, compensation",
       applicability |-> "Industrial establishments with 50 or more workers"],
      [category      |-> "consumer",
       subcategory   |-> "defective_goods",
       law_section   |-> "Consumer Protection Act, 2019 - Section 2(5)",
       description   |-> "Definition of defective goods and consumer rights",
       keywords      |-> "defective goods, consumer rights, refund, replacement",
       applicability |-> "All consumers purchasing goods or services"]>>

\* The constraints of legal_knowledge that an INSERT can conflict with: the
\* PRIMARY KEY, and nothing else.
KnowledgeKey == {"knowledge_id"}

\* The row of legal_knowledge that an INSERT of the six values makes.
KnowledgeRow(knowledge_id, now, knowledge) ==
    [c \in KnowledgeColumns |-> knowledge[c]]
    @@ [knowledge_id |-> knowledge_id,
        created_at   |-> CurrentTimestamp(now),
        updated_at   |-> CurrentTimestamp(now)]

\* INSERT OR IGNORE: the row is skipped when a row with the same key is there.
InsertOrIgnore(d, table, key, row) ==
    IF \E i \in DOMAIN Rows(d, table) : \A c \in key : Rows(d, table)[i][c] = row[c]
    THEN d
    ELSE InsertRow(d, table, row)

\* populate_initial_knowledge's loop; the knowledge_id is AUTOINCREMENT.
RECURSIVE Populate(_, _, _)
Populate(d, now, todo) ==
    IF todo = <<>> THEN d
    ELSE Populate(InsertOrIgnore(d, "legal_knowledge", KnowledgeKey,
                                 KnowledgeRow(Len(Rows(d, "legal_knowledge")) + 1, now, Head(todo))),
                  now, Tail(todo))

\* LegalKnowledgeBase.__init__.
LegalKnowledgeBase_init(d, now) == Populate(d, now, InitialKnowledge)

\* LegalKnowledgeBase.add_knowledge.
LegalKnowledgeBase_add_knowledge(d, now, knowledge_data) ==
    IF ~(KnowledgeColumns \subseteq DOMAIN knowledge_data)
    THEN [db |-> d, result |-> Raise("KeyError")]
    ELSE [db     |-> InsertRow(d, "legal_knowledge",
                               KnowledgeRow(Len(Rows(d, "legal_knowledge")) + 1, now, knowledge_data)),
          result |-> Return(PyNone)]

\* What callers add: two entries, and a dict without 'applicability'.
KnowledgeDatas ==
    {[category |-> "tax", subcategory |-> "income", law_section |-> "Income Tax Act, 1961",
      description |-> "d1", keywords |-> "tax", applicability |-> "a1"],
     [category |-> "family", subcategory |-> "custody", law_section |-> "Guardians and Wards Act, 1890",
      description |-> "d2", keywords |-> "custody", applicability |-> "a2"],
     [category |-> "tax", subcategory |-> "gst"]}

InitKnowledge ==
    /\ InitPipeline
    /\ InitUrgencyIdle
    /\ InitAdviceIdle
    /\ InitSessionIdle
    /\ InitConcurrentIdle
    /\ InitProcessIdle
    /\ db = DatabaseManager_init(NoDatabase).db
    /\ logger = DatabaseManager_init(NoDatabase).logger
    /\ clock = 0
    /\ outcome = Return(PyNone)
    /\ journal = <<>>

ConstructKnowledgeBase ==
    /\ Len(journal) < MaxAdditions
    /\ db' = LegalKnowledgeBase_init(db, clock)
    /\ Record("LegalKnowledgeBase", PyNone, Return(PyNone))
    /\ UNCHANGED <<logger, clock>>
    /\ UNCHANGED <<pipeline_vars, urgency_vars, advice_vars, session_vars, frames, process_vars>>

AddKnowledge(knowledge_data) ==
    /\ Len(journal) < MaxAdditions
    /\ Made("LegalKnowledgeBase")
    /\ \E done \in {LegalKnowledgeBase_add_knowledge(db, clock, knowledge_data)} :
           /\ db' = done.db
           /\ Record("add_knowledge", knowledge_data, done.result)
    /\ UNCHANGED <<logger, clock>>
    /\ UNCHANGED <<pipeline_vars, urgency_vars, advice_vars, session_vars, frames, process_vars>>

NextKnowledge ==
    \/ ConstructKnowledgeBase
    \/ \E knowledge_data \in KnowledgeDatas : AddKnowledge(knowledge_data)

SpecKnowledge == InitKnowledge /\ [][NextKnowledge]_vars

----------------------------------------------------------------------------
(* Claim about the knowledge base (checked under SpecKnowledge) *)

\* The six values of a row.
Knowledge(row) == [c \in KnowledgeColumns |-> row[c]]

\* C28: however many times LegalKnowledgeBase was constructed, the table has
\* each of the five initial entries once, and every entry that add_knowledge
\* added is still there as it was added.
C28_PopulateIdempotent ==
    /\ Made("LegalKnowledgeBase") =>
           \A k \in DOMAIN InitialKnowledge :
               Cardinality({i \in DOMAIN Rows(db, "legal_knowledge") :
                               Knowledge(Rows(db, "legal_knowledge")[i]) = InitialKnowledge[k]}) = 1
    /\ \A e \in DOMAIN journal :
           (journal[e].call = "add_knowledge" /\ journal[e].result.kind = "return") =>
               \E i \in DOMAIN Rows(db, "legal_knowledge") :
                   Knowledge(Rows(db, "legal_knowledge")[i]) = journal[e].arg

====
